---------------------------- MODULE Spec2Model ----------------------------
(***************************************************************************)
(* Geospatial sector / containment / drift geometry of the search scripts. *)
(*                                                                         *)
(* Number representation.  The scripts compute in binary floating point.   *)
(* Here every quantity measured in degrees (latitudes, longitudes,         *)
(* bearings, widths, radii converted to degrees) is a fixed-point integer  *)
(* counting units of 1e-4 degree, every sine or cosine is a fixed-point    *)
(* integer counting units of 1e-4, and every division rounds to the        *)
(* nearest unit.  Angles that the scripts hold in radians are held in the  *)
(* same degree units: math.radians / math.degrees only change the scale.   *)
(***************************************************************************)
EXTENDS Integers, Sequences, FiniteSets, TLC

VARIABLES pc, args, ret, globals

vars == <<pc, args, ret, globals>>

(***************************************************************************)
(* Fixed-point arithmetic                                                  *)
(***************************************************************************)

\* units per degree, and per 1.0 of a sine or cosine
U == 10^4

Abs(a) == IF a < 0 THEN -a ELSE a

Min2(a, b) == IF a <= b THEN a ELSE b

Max2(a, b) == IF a >= b THEN a ELSE b

\* a / b for b > 0, rounded to the nearest unit
Rnd(a, b) == (2 * a + b) \div (2 * b)

\* a / b of two floats, b # 0
Div(a, b) == IF b > 0 THEN Rnd(a, b) ELSE Rnd(-a, -b)

\* a * b where b is a sine or cosine (scale U)
Mul(a, b) == Rnd(a * b, U)

Deg(n) == n * U

\* sin(d degrees) * U for d = 0 .. 90
SinTab ==
  << 0, 175, 349, 523, 698, 872, 1045, 1219, 1392, 1564, 1736, 1908, 2079,
     2250, 2419, 2588, 2756, 2924, 3090, 3256, 3420, 3584, 3746, 3907, 4067, 4226,
     4384, 4540, 4695, 4848, 5000, 5150, 5299, 5446, 5592, 5736, 5878, 6018, 6157,
     6293, 6428, 6561, 6691, 6820, 6947, 7071, 7193, 7314, 7431, 7547, 7660, 7771,
     7880, 7986, 8090, 8192, 8290, 8387, 8480, 8572, 8660, 8746, 8829, 8910, 8988,
     9063, 9135, 9205, 9272, 9336, 9397, 9455, 9511, 9563, 9613, 9659, 9703, 9744,
     9781, 9816, 9848, 9877, 9903, 9925, 9945, 9962, 9976, 9986, 9994, 9998, 10000 >>

\* sine of an angle a in [0, 90] degrees: table value, linear in between
SinQ(a) ==
  LET k == a \div U
      f == a % U
  IN  IF f = 0 THEN SinTab[k + 1]
      ELSE SinTab[k + 1] + Rnd((SinTab[k + 2] - SinTab[k + 1]) * f, U)

\* math.sin of an angle held in degree units
Sin(a) ==
  LET m == a % Deg(360)
  IN  IF m <= Deg(90) THEN SinQ(m)
      ELSE IF m <= Deg(180) THEN SinQ(Deg(180) - m)
      ELSE IF m <= Deg(270) THEN -SinQ(m - Deg(180))
      ELSE -SinQ(Deg(360) - m)

\* math.cos of an angle held in degree units
Cos(a) == Sin(a + Deg(90))

\* atan2 restricted to y >= 0, x >= 0, not both 0: result in [0, 90] degrees
AtanQ(y, x) ==
  LET F(d) == y * SinTab[91 - d] - x * SinTab[d + 1]
      d == CHOOSE e \in 0..90 : F(e) >= 0 /\ (e = 90 \/ F(e + 1) < 0)
      f0 == F(d) \div 100
      den == (F(d) - F(d + 1)) \div 100
  IN  IF d = 90 THEN Deg(90)
      ELSE IF den <= 0 THEN Deg(d)
      ELSE Deg(d) + Min2(U - 1, Rnd(f0 * U, den))

\* math.atan2(y, x), result in (-180, 180] degrees; atan2(0, 0) = 0
Atan2(y, x) ==
  IF x = 0 /\ y = 0 THEN 0
  ELSE LET q == AtanQ(Abs(y), Abs(x))
       IN  IF x >= 0 /\ y >= 0 THEN q
           ELSE IF x < 0 /\ y >= 0 THEN Deg(180) - q
           ELSE IF x < 0 THEN q - Deg(180)
           ELSE -q

(***************************************************************************)
(* Sector polygon generator (main.py create_sector_polygon)                *)
(***************************************************************************)

\* number of interpolation steps along each arc
num_arc_points == 20

\* the 69-miles-per-degree conversion, miles / 69.0
MilesToDegrees60(miles) == Rnd(miles * U, 60)

MilesToDegrees(miles) == Rnd(miles * U, 69)

\* initial bearing from (lat1, lon1) to (lat2, lon2), not normalised
BearingCenter(lat1, lon1, lat2, lon2) ==
  LET dlon == lon2 - lon1
  IN  Atan2(Mul(Sin(dlon), Cos(lat2)),
            Mul(Cos(lat1), Sin(lat2)) - Mul(Mul(Sin(lat1), Cos(lat2)), Cos(dlon)))

\* the point at radius_deg from the center in direction bearing
SectorPoint(center_lat, center_lon, radius_deg, bearing) ==
  << center_lat + Mul(radius_deg, Cos(bearing)),
     center_lon + Div(radius_deg * Sin(bearing), Cos(center_lat)) >>

\* bearing of the i-th point of the inner arc, left to right
InnerBearing(bearing_left, bearing_right, i) ==
  bearing_left + Div((bearing_right - bearing_left) * i, num_arc_points)

\* bearing of the i-th point of the outer arc, right to left
OuterBearingAscending(bearing_left, bearing_right, i) ==
  bearing_left + Div((bearing_right - bearing_left) * i, num_arc_points)

OuterBearing(bearing_left, bearing_right, i) ==
  bearing_right - Div((bearing_right - bearing_left) * i, num_arc_points)

\* radius of the inner arc
InnerRadiusMax(a) == MilesToDegrees(a.max_radius_miles)

InnerRadius(a) == MilesToDegrees(a.min_radius_miles)

\* radius of the closing point: the older variant closed through the center
ClosingRadiusCenter(a) == 0

ClosingRadius(a) == MilesToDegrees(a.min_radius_miles)

\* math.radians(rotation_degrees).  Radians are held in degree units, so the
\* conversion leaves the number as it is; the variant takes the degree count
\* for a count of radians (57.3 degrees each)
RadiansOmitted(degrees) == (degrees \div 10) * 573

Radians(degrees) == degrees

create_sector_polygon(a) ==
  LET rotation_rad == Radians(a.rotation_degrees)
      bearing_center == BearingCenter(a.center_lat, a.center_lon,
                                      a.bearing_lat, a.bearing_lon)
                        + rotation_rad
      half_width == Div(a.width_degrees, 2)
      bearing_left == bearing_center - half_width
      bearing_right == bearing_center + half_width
      min_radius_deg == InnerRadius(a)
      max_radius_deg == MilesToDegrees(a.max_radius_miles)
      inner == [i \in 1..(num_arc_points + 1) |->
                  SectorPoint(a.center_lat, a.center_lon, min_radius_deg,
                              InnerBearing(bearing_left, bearing_right, i - 1))]
      outer == [i \in 1..(num_arc_points + 1) |->
                  SectorPoint(a.center_lat, a.center_lon, max_radius_deg,
                              OuterBearing(bearing_left, bearing_right, i - 1))]
      closing == SectorPoint(a.center_lat, a.center_lon, ClosingRadius(a),
                             bearing_left)
  IN  inner \o outer \o <<closing>>

\* inputs of the sector generator
SectorCenters == { <<Deg(40), Deg(-75)>>, <<Deg(0), Deg(10)>> }

\* offsets of the direction point from the center; <<0, 0>> is a direction
\* point equal to the center
SectorDirections ==
  { <<Deg(1), Deg(3)>>, <<Deg(-2), Deg(1)>>, <<Deg(0), Deg(-1)>>, <<0, 0>> }

SectorWidths == { Deg(-10), 0, Deg(15), Deg(30), Deg(350), Deg(360), Deg(400) }

SectorMinRadii == { 0, 4, 10 }

SectorMaxRadii == { 4, 7, 25 }

SectorRotations == { 0, Deg(45), Deg(-90), Deg(360) }

SectorArgs ==
  { [center_lat |-> c[1], center_lon |-> c[2],
     bearing_lat |-> c[1] + d[1], bearing_lon |-> c[2] + d[2],
     width_degrees |-> w, min_radius_miles |-> rmin, max_radius_miles |-> rmax,
     rotation_degrees |-> rot] :
       c \in SectorCenters, d \in SectorDirections, w \in SectorWidths,
       rmin \in SectorMinRadii, rmax \in SectorMaxRadii, rot \in SectorRotations }

\* outcome of a call: a returned value or a raised exception
NoRet == [exc |-> "pending", val |-> <<>>]

Return(v) == [exc |-> "None", val |-> v]

Raise(e) == [exc |-> e, val |-> <<>>]

\* a script whose functions keep no state between calls has no globals
NoGlobals == <<>>

InitSector == pc = "call" /\ args \in SectorArgs /\ ret = NoRet /\ globals = NoGlobals

CreateSectorPolygon ==
  /\ pc = "call"
  /\ ret' = Return(create_sector_polygon(args))
  /\ pc' = "done"
  /\ UNCHANGED <<args, globals>>

NextSector == CreateSectorPolygon

SpecSector == InitSector /\ [][NextSector]_vars

(***************************************************************************)
(* Plane geometry                                                          *)
(***************************************************************************)

Sign(a) == IF a > 0 THEN 1 ELSE IF a < 0 THEN -1 ELSE 0

\* twice the signed area of the triangle a, b, c
Orient(a, b, c) ==
  (b[1] - a[1]) * (c[2] - a[2]) - (b[2] - a[2]) * (c[1] - a[1])

\* c lies in the bounding box of the segment a b
InBox(a, b, c) ==
  /\ Min2(a[1], b[1]) <= c[1] /\ c[1] <= Max2(a[1], b[1])
  /\ Min2(a[2], b[2]) <= c[2] /\ c[2] <= Max2(a[2], b[2])

\* c lies on the closed segment a b
OnSegment(a, b, c) == Orient(a, b, c) = 0 /\ InBox(a, b, c)

\* the closed segments a b and c d have a common point
SegmentsMeet(a, b, c, d) ==
  LET o1 == Sign(Orient(a, b, c))
      o2 == Sign(Orient(a, b, d))
      o3 == Sign(Orient(c, d, a))
      o4 == Sign(Orient(c, d, b))
  IN  \/ (o1 # o2 /\ o3 # o4)
      \/ (o1 = 0 /\ InBox(a, b, c))
      \/ (o2 = 0 /\ InBox(a, b, d))
      \/ (o3 = 0 /\ InBox(c, d, a))
      \/ (o4 = 0 /\ InBox(c, d, b))

\* a closed vertex list (last = first) bounds a simple polygon: no edge is a
\* point, consecutive edges share only their common vertex, and edges that
\* are not consecutive do not meet
IsSimpleClosed(p) ==
  LET n == Len(p) - 1
      nxt(i) == IF i = n THEN 1 ELSE i + 1
  IN  /\ n >= 3
      /\ p[n + 1] = p[1]
      /\ \A i \in 1..n : p[i] # p[i + 1]
      /\ \A i \in 1..n :
           /\ ~OnSegment(p[i], p[i + 1], p[nxt(i) + 1])
           /\ ~OnSegment(p[nxt(i)], p[nxt(i) + 1], p[i])
      /\ \A i \in 1..n : \A j \in (i + 2)..n :
           (i = 1 /\ j = n) \/ ~SegmentsMeet(p[i], p[i + 1], p[j], p[j + 1])

(***************************************************************************)
(* Ray-casting containment test (canister_trajectory_analysis.py and       *)
(* refined_canister_analysis.py point_in_polygon).  Callers pass           *)
(* [lat, lon] pairs, so x is the latitude and y the longitude.  The        *)
(* coordinates drawn here are small integers, for which the float          *)
(* quotient in xinters compares like the exact quotient: xinters is kept   *)
(* as the fraction num / den.                                              *)
(***************************************************************************)

\* largest number of vertices of a polygon handed to the containment tests
MaxVerts == 4

Unbound == [bound |-> FALSE, num |-> 0, den |-> 1]

\* xinters = (y - p1y) * (p2x - p1x) / (p2y - p1y) + p1x
XInters(y, p1, p2) ==
  [bound |-> TRUE,
   num |-> (y - p1[2]) * (p2[1] - p1[1]) + p1[1] * (p2[2] - p1[2]),
   den |-> p2[2] - p1[2]]

\* x <= xinters
LeqXInters(x, xi) ==
  IF xi.den > 0 THEN x * xi.den <= xi.num ELSE x * xi.den >= xi.num

\* last value of i in "for i in range(1, n + 1)"
LoopEndOpen(n) == n - 1

LoopEnd(n) == n

\* the three nested tests that guard the crossing test of the edge p1-p2;
\* the variant also admits an edge whose lower end is level with the point
ReachedLevel(point, p1, p2) ==
  /\ point[2] >= Min2(p1[2], p2[2])
  /\ point[2] <= Max2(p1[2], p2[2])
  /\ point[1] <= Max2(p1[1], p2[1])

Reached(point, p1, p2) ==
  /\ point[2] > Min2(p1[2], p2[2])
  /\ point[2] <= Max2(p1[2], p2[2])
  /\ point[1] <= Max2(p1[1], p2[1])

\* "p1x == p2x or x <= xinters" evaluates xinters when p1x differs from p2x
Reads(point, p1, p2) == Reached(point, p1, p2) /\ p1[1] # p2[1]

\* one pass of the loop body for index i; st holds p1, inside, xinters and
\* the exception raised so far
PipStep(point, polygon, i, st) ==
  LET x == point[1]
      y == point[2]
      n == Len(polygon)
      p1 == st.p1
      p2 == polygon[(i % n) + 1]
      reached == Reached(point, p1, p2)
      xinters == IF reached /\ p1[2] # p2[2] THEN XInters(y, p1, p2)
                 ELSE st.xinters
      reads == Reads(point, p1, p2)
      flips == reached /\ (p1[1] = p2[1] \/ (xinters.bound /\ LeqXInters(x, xinters)))
  IN  [p1 |-> p2,
       inside |-> IF flips THEN ~st.inside ELSE st.inside,
       xinters |-> xinters,
       exc |-> IF reads /\ ~xinters.bound THEN "UnboundLocalError" ELSE "None"]

RECURSIVE PipLoop(_, _, _, _)

PipLoop(point, polygon, i, st) ==
  IF i > LoopEnd(Len(polygon)) \/ st.exc # "None" THEN st
  ELSE PipLoop(point, polygon, i + 1, PipStep(point, polygon, i, st))

point_in_polygon(point, polygon) ==
  LET st == PipLoop(point, polygon, 1,
                    [p1 |-> polygon[1], inside |-> FALSE, xinters |-> Unbound,
                     exc |-> "None"])
  IN  IF st.exc # "None" THEN Raise(st.exc) ELSE Return(st.inside)

\* vertices and test points of the containment tests
GridVertices == { <<x, y>> : x \in {0, 2, 4}, y \in {0, 2, 4} }

GridPoints == { <<x, y>> : x \in 0..4, y \in 0..4 }

Polygons == UNION { [1..n -> GridVertices] : n \in 3..MaxVerts }

InitContain ==
  /\ pc = "call"
  /\ \E pt \in GridPoints, pg \in Polygons : args = [point |-> pt, polygon |-> pg]
  /\ ret = NoRet /\ globals = NoGlobals

PointInPolygon ==
  /\ pc = "call"
  /\ ret' = point_in_polygon(args.point, args.polygon)
  /\ pc' = "done"
  /\ UNCHANGED <<args, globals>>

NextContain == PointInPolygon

SpecContain == InitContain /\ [][NextContain]_vars

(***************************************************************************)
(* Buffered wedge filter (comprehensive_veil_search.py).  The wedge is a   *)
(* Shapely Polygon in (lon, lat) order, built from [lat, lon] corners that *)
(* bound a simple polygon.  Shapely is modelled by what it computes:       *)
(* contains is membership in the interior, and buffer(d), d >= 0, is the   *)
(* set of points at distance at most d from the polygon (its round joins   *)
(* taken as exact circles), so buffer(0) is the polygon itself.  buffer_km *)
(* is held in metres; buffer_km * 0.01 degrees is metres / 10 units.       *)
(***************************************************************************)

\* largest number of nodes in the geometry of a way
MaxNodes == 2

\* Polygon([(corner[1], corner[0]) for corner in corners])
create_wedge_polygon(corners) ==
  [i \in 1..Len(corners) |-> <<corners[i][2], corners[i][1]>>]

\* Point(lon, lat)
ShapelyPoint(lon, lat) == <<lon, lat>>

\* polygon.contains(point): the point is in the interior of the polygon
ShapelyContains(polygon, point) ==
  LET n == Len(polygon)
      crossed == { i \in 1..n :
                     LET a == polygon[i]
                         b == polygon[(i % n) + 1]
                     IN  /\ (a[2] > point[2]) # (b[2] > point[2])
                         /\ IF b[2] > a[2] THEN Orient(a, b, point) > 0
                                           ELSE Orient(a, b, point) < 0 }
  IN  /\ \A i \in 1..n : ~OnSegment(polygon[i], polygon[(i % n) + 1], point)
      /\ Cardinality(crossed) % 2 = 1

\* the distance from point to the closed segment a b is less than d
NearSegment(point, a, b, d) ==
  LET abx == b[1] - a[1]
      aby == b[2] - a[2]
      apx == point[1] - a[1]
      apy == point[2] - a[2]
      bpx == point[1] - b[1]
      bpy == point[2] - b[2]
      dot == apx * abx + apy * aby
      len2 == abx * abx + aby * aby
      cross == abx * apy - aby * apx
  IN  /\ d > 0
      /\ IF dot <= 0 THEN apx * apx + apy * apy < d * d
         ELSE IF dot >= len2 THEN bpx * bpx + bpy * bpy < d * d
         ELSE cross * cross < d * d * len2

\* polygon.buffer(d).contains(point), d >= 0
ShapelyBufferContains(polygon, d, point) ==
  \/ ShapelyContains(polygon, point)
  \/ \E i \in 1..Len(polygon) :
       NearSegment(point, polygon[i], polygon[(i % Len(polygon)) + 1], d)

\* buffer_degrees = buffer_km * 0.01
BufferDegreesFixed(buffer_km) == 50

BufferDegrees(buffer_km) == Rnd(buffer_km, 10)

\* the default of the buffer_km parameter, 0.5 km
DefaultBufferKm == 500

is_inside_wedge_with_buffer(lat, lon, wedge_polygon, buffer_km) ==
  LET point == ShapelyPoint(lon, lat)
  IN  IF ShapelyContains(wedge_polygon, point) THEN TRUE
      ELSE ShapelyBufferContains(wedge_polygon, BufferDegrees(buffer_km), point)

\* the variant that returns the verdict of the first node of a way
is_element_in_wedge_first(element, wedge_polygon) ==
  IF element.type = "node"
  THEN is_inside_wedge_with_buffer(element.lat, element.lon, wedge_polygon,
                                   DefaultBufferKm)
  ELSE IF element.type = "way" /\ "geometry" \in DOMAIN element
            /\ Len(element.geometry) > 0
  THEN is_inside_wedge_with_buffer(element.geometry[1].lat, element.geometry[1].lon,
                                   wedge_polygon, DefaultBufferKm)
  ELSE FALSE

is_element_in_wedge(element, wedge_polygon) ==
  IF element.type = "node"
  THEN is_inside_wedge_with_buffer(element.lat, element.lon, wedge_polygon,
                                   DefaultBufferKm)
  ELSE IF element.type = "way" /\ "geometry" \in DOMAIN element
  THEN \E i \in 1..Len(element.geometry) :
         is_inside_wedge_with_buffer(element.geometry[i].lat, element.geometry[i].lon,
                                     wedge_polygon, DefaultBufferKm)
  ELSE FALSE

\* wedge corners: the vertex lists that bound a simple polygon
WedgeVertices == { <<x, y>> : x \in {0, 20, 40}, y \in {0, 20, 40} }

WedgeCorners ==
  { c \in UNION { [1..n -> WedgeVertices] : n \in 3..MaxVerts } :
      IsSimpleClosed(c \o <<c[1]>>) }

\* points tested against the wedge, [lat, lon]
WedgePoints ==
  { <<x, y>> : x \in {0, 10, 20, 30, 40}, y \in {0, 10, 20, 30, 40} }
    \cup { <<50, 20>>, <<20, -10>>, <<60, 60>>, <<90, 20>> }

BufferKms == { 0, 100, 500 }

\* points of map elements
NodePoints == { <<10, 10>>, <<30, 20>>, <<60, 60>>, <<90, 20>> }

Nodes == { [lat |-> pt[1], lon |-> pt[2]] : pt \in NodePoints }

Elements ==
  { [type |-> "node", lat |-> nd.lat, lon |-> nd.lon] : nd \in Nodes }
    \cup { [type |-> "way", geometry |-> g] :
             g \in UNION { [1..k -> Nodes] : k \in 0..MaxNodes } }
    \cup { [type |-> "way"], [type |-> "relation"] }

InitWedge ==
  /\ pc = "call"
  /\ ret = NoRet /\ globals = NoGlobals
  /\ \E corners \in WedgeCorners :
       \/ \E pt \in WedgePoints, km \in BufferKms :
            args = [fn |-> "is_inside_wedge_with_buffer", corners |-> corners,
                    wedge_polygon |-> create_wedge_polygon(corners),
                    lat |-> pt[1], lon |-> pt[2], buffer_km |-> km]
       \/ \E el \in Elements :
            args = [fn |-> "is_element_in_wedge", corners |-> corners,
                    wedge_polygon |-> create_wedge_polygon(corners),
                    element |-> el]

IsInsideWedgeWithBuffer ==
  /\ pc = "call"
  /\ args.fn = "is_inside_wedge_with_buffer"
  /\ ret' = Return(is_inside_wedge_with_buffer(args.lat, args.lon,
                                               args.wedge_polygon, args.buffer_km))
  /\ pc' = "done"
  /\ UNCHANGED <<args, globals>>

IsElementInWedge ==
  /\ pc = "call"
  /\ args.fn = "is_element_in_wedge"
  /\ ret' = Return(is_element_in_wedge(args.element, args.wedge_polygon))
  /\ pc' = "done"
  /\ UNCHANGED <<args, globals>>

NextWedge == IsInsideWedgeWithBuffer \/ IsElementInWedge

SpecWedge == InitWedge /\ [][NextWedge]_vars

(***************************************************************************)
(* Wind-drift projector (canister_trajectory_analysis.py                   *)
(* calculate_canister_drift).  Altitudes are whole feet, wind speeds whole *)
(* miles per hour, distances whole metres, speeds in m/s count units of    *)
(* 0.01 m/s and times units of 0.01 s.                                     *)
(***************************************************************************)

\* assumed terminal velocity of the canister, m/s
terminal_velocity == 50

\* metres per degree of latitude used by the drift code
MetersPerDegree == 111000

\* altitude_ft * 0.3048, metres; the variant has two digits of the factor
\* exchanged
FeetToMetersSwapped(altitude_ft) == Rnd(altitude_ft * 3084, 10^4)

FeetToMeters(altitude_ft) == Rnd(altitude_ft * 3048, 10^4)

\* mph * 0.44704, units of 0.01 m/s
MphToMs(mph) == Rnd(mph * 44704, 10^3)

\* wind speed * fall time, metres; the variant adds 1 m/s of glide in still
\* air
DriftMetersGlide(wind_ms, fall_time) == Rnd((wind_ms + 100) * fall_time, 10^4)

DriftMeters(wind_ms, fall_time) == Rnd(wind_ms * fall_time, 10^4)

\* a northward distance in metres times lat_per_meter, degree units
LatDrift(north_m) == Rnd(north_m * 10^4, MetersPerDegree)

\* an eastward distance in metres times lon_per_meter at start_lat
LonDrift(east_m, start_lat) ==
  Div(east_m * 100, Rnd((MetersPerDegree \div 1000) * Cos(start_lat), 100))

\* (aircraft_bearing + 90) % 360: the bearing along which the perpendicular
\* wind component is applied
CrosswindBearing(aircraft_bearing) == (aircraft_bearing + Deg(90)) % Deg(360)

calculate_canister_drift(start_lat, start_lon, altitude_ft, wind_conditions) ==
  LET altitude_m == FeetToMeters(altitude_ft)
      fall_time == Rnd(altitude_m * 100, terminal_velocity)
      tailwind_ms == MphToMs(wind_conditions.tailwind)
      crosswind_ms == MphToMs(wind_conditions.crosswind)
      aircraft_bearing == wind_conditions.bearing
      tailwind_drift_m == DriftMeters(tailwind_ms, fall_time)
      crosswind_bearing == CrosswindBearing(aircraft_bearing)
      crosswind_drift_m == DriftMeters(crosswind_ms, fall_time)
      tailwind_lat_drift == LatDrift(Mul(tailwind_drift_m, Cos(aircraft_bearing)))
      tailwind_lon_drift ==
        LonDrift(Mul(tailwind_drift_m, Sin(aircraft_bearing)), start_lat)
      crosswind_lat_drift == LatDrift(Mul(crosswind_drift_m, Cos(crosswind_bearing)))
      crosswind_lon_drift ==
        LonDrift(Mul(crosswind_drift_m, Sin(crosswind_bearing)), start_lat)
      total_lat_drift == tailwind_lat_drift + crosswind_lat_drift
      total_lon_drift == tailwind_lon_drift + crosswind_lon_drift
  IN  [landing_lat |-> start_lat + total_lat_drift,
       landing_lon |-> start_lon + total_lon_drift,
       fall_time_seconds |-> fall_time,
       \* math.sqrt((tailwind_drift_m + crosswind_drift_m) ** 2)
       drift_distance_m |-> Abs(tailwind_drift_m + crosswind_drift_m),
       drift_components |-> [tailwind_m |-> tailwind_drift_m,
                             crosswind_m |-> crosswind_drift_m,
                             total_lat_drift |-> total_lat_drift,
                             total_lon_drift |-> total_lon_drift]]

(***************************************************************************)
(* Scenario projector (refined_canister_analysis.py).  fall_time and the   *)
(* two wind speeds are parameters here, in units of 0.01 s and 0.01 m/s.   *)
(***************************************************************************)

\* terminal velocity assumed by calculate_refined_landing_zone, m/s
estimated_terminal_velocity == 45

\* the wedge search area, [lat, lon] corners
wedge_corners ==
  << <<404926, -745785>>, <<405005, -745616>>,
     <<405275, -745776>>, <<405161, -746037>> >>

\* "return (bearing + 360) % 360"; the sector generator keeps the raw angle
NormalizeBearingRaw(bearing) == bearing

NormalizeBearing(bearing) == (bearing + Deg(360)) % Deg(360)

calculate_bearing(lat1, lon1, lat2, lon2) ==
  NormalizeBearing(BearingCenter(lat1, lon1, lat2, lon2))

RECURSIVE SqrtLoop(_, _, _)

\* bisection for the largest r in lo..hi with r * r <= n
SqrtLoop(n, lo, hi) ==
  IF lo >= hi THEN lo
  ELSE LET mid == (lo + hi + 1) \div 2
       IN  IF mid * mid <= n THEN SqrtLoop(n, mid, hi)
           ELSE SqrtLoop(n, lo, mid - 1)

\* math.sqrt, to the nearest whole unit
Sqrt(n) ==
  LET r == SqrtLoop(n, 0, Min2(n, 46000))
  IN  IF n - r * r > r THEN r + 1 ELSE r

\* a [lat, lon] pair relative to an origin
Relative(point, origin) == <<point[1] - origin[1], point[2] - origin[2]>>

\* point_in_polygon([landing_lat, landing_lon], wedge_corners).  The ray
\* test only uses coordinate differences, so it is evaluated on coordinates
\* relative to the first corner, which keeps the products small.
InWedge(landing_lat, landing_lon) ==
  point_in_polygon(Relative(<<landing_lat, landing_lon>>, wedge_corners[1]),
                   [i \in 1..Len(wedge_corners) |->
                      Relative(wedge_corners[i], wedge_corners[1])])

calculate_drift_scenario(start_lat, start_lon, fall_time, aircraft_bearing, wind1_ms, wind2_ms, scenario_name) ==
  LET wind1_drift_m == DriftMeters(wind1_ms, fall_time)
      wind2_drift_m == DriftMeters(wind2_ms, fall_time)
      primary_lat_drift == LatDrift(Mul(wind1_drift_m, Cos(aircraft_bearing)))
      primary_lon_drift ==
        LonDrift(Mul(wind1_drift_m, Sin(aircraft_bearing)), start_lat)
      secondary_bearing == CrosswindBearing(aircraft_bearing)
      secondary_lat_drift == LatDrift(Mul(wind2_drift_m, Cos(secondary_bearing)))
      secondary_lon_drift ==
        LonDrift(Mul(wind2_drift_m, Sin(secondary_bearing)), start_lat)
      landing_lat == start_lat + primary_lat_drift + secondary_lat_drift
      landing_lon == start_lon + primary_lon_drift + secondary_lon_drift
      in_wedge == InWedge(landing_lat, landing_lon)
  IN  IF in_wedge.exc # "None" THEN in_wedge
      ELSE Return([scenario |-> scenario_name,
                   aircraft_bearing |-> aircraft_bearing,
                   landing_lat |-> landing_lat,
                   landing_lon |-> landing_lon,
                   in_wedge |-> in_wedge.val,
                   drift_distance_m |->
                     Sqrt(wind1_drift_m * wind1_drift_m
                            + wind2_drift_m * wind2_drift_m)])

\* the mean of the corners' k-th coordinates
WedgeCenter(k) ==
  Rnd(wedge_corners[1][k] + wedge_corners[2][k] + wedge_corners[3][k]
        + wedge_corners[4][k], Len(wedge_corners))

\* altitude_m / estimated_terminal_velocity
RefinedFallTime(altitude_ft) ==
  Rnd(FeetToMeters(altitude_ft) * 100, estimated_terminal_velocity)

\* c is the search_pattern_coordinates dictionary
calculate_refined_landing_zone(c) ==
  LET base_lat == c.lat
      base_lon == c.lon
      fall_time == RefinedFallTime(c.altitude)
      tailwind_ms == MphToMs(c.tailwind)
      crosswind_ms == MphToMs(c.crosswind)
      scenario_1 == calculate_drift_scenario(base_lat, base_lon, fall_time,
                      c.bearing, tailwind_ms, crosswind_ms,
                      "Search Pattern Release")
      bearing_to_wedge == calculate_bearing(base_lat, base_lon,
                                            WedgeCenter(1), WedgeCenter(2))
      scenario_2 == calculate_drift_scenario(base_lat, base_lon, fall_time,
                      bearing_to_wedge, tailwind_ms, crosswind_ms,
                      "Turn Toward Search Area")
      crosswind_bearing == CrosswindBearing(c.bearing)
      scenario_3 == calculate_drift_scenario(base_lat, base_lon, fall_time,
                      crosswind_bearing, crosswind_ms, tailwind_ms,
                      "Crosswind Dominant")
  IN  IF scenario_1.exc # "None" THEN scenario_1
      ELSE IF scenario_2.exc # "None" THEN scenario_2
      ELSE IF scenario_3.exc # "None" THEN scenario_3
      ELSE Return(<<scenario_1.val, scenario_2.val, scenario_3.val>>)

\* inputs of the drift projectors
DriftStarts == { <<414737, -746607>>, <<Deg(10), Deg(20)>> }

DriftAltitudes == { -10000, 0, 10000, 65000 }

DriftTailwinds == { 0, 76, -20 }

DriftCrosswinds == { 0, 48 }

DriftBearings == { 0, Deg(37), Deg(90), Deg(300) }

\* the side the crosswind is reported from ("from left" in the briefing);
\* the dictionary carries it only as a remark, no code reads it
CrossTrackSides == { "LEFT", "RIGHT" }

ScenarioStarts == DriftStarts \cup { <<405100, -745800>> }

ScenarioFallTimes == { 0, 6096, 39624 }

ScenarioWinds == { 0, MphToMs(76), MphToMs(48) }

InitDrift ==
  /\ pc = "call"
  /\ ret = NoRet /\ globals = NoGlobals
  /\ \/ \E st \in DriftStarts, alt \in DriftAltitudes, tw \in DriftTailwinds,
           cw \in DriftCrosswinds, b \in DriftBearings, side \in CrossTrackSides :
          args = [fn |-> "calculate_canister_drift",
                  start_lat |-> st[1], start_lon |-> st[2], altitude_ft |-> alt,
                  wind_conditions |-> [tailwind |-> tw, crosswind |-> cw,
                                       bearing |-> b, cross_track_side |-> side]]
     \/ \E st \in ScenarioStarts, ft \in ScenarioFallTimes, b \in DriftBearings,
           w1 \in ScenarioWinds, w2 \in ScenarioWinds :
          args = [fn |-> "calculate_drift_scenario",
                  start_lat |-> st[1], start_lon |-> st[2], fall_time |-> ft,
                  aircraft_bearing |-> b, wind1_ms |-> w1, wind2_ms |-> w2,
                  scenario_name |-> "scenario"]
     \/ \E st \in DriftStarts, alt \in DriftAltitudes, tw \in DriftTailwinds,
           cw \in DriftCrosswinds, b \in DriftBearings :
          args = [fn |-> "calculate_refined_landing_zone",
                  search_pattern_coordinates |->
                    [lat |-> st[1], lon |-> st[2], bearing |-> b,
                     altitude |-> alt, tailwind |-> tw, crosswind |-> cw]]

CalculateCanisterDrift ==
  /\ pc = "call"
  /\ args.fn = "calculate_canister_drift"
  /\ ret' = Return(calculate_canister_drift(args.start_lat, args.start_lon,
                                            args.altitude_ft, args.wind_conditions))
  /\ pc' = "done"
  /\ UNCHANGED <<args, globals>>

CalculateDriftScenario ==
  /\ pc = "call"
  /\ args.fn = "calculate_drift_scenario"
  /\ ret' = calculate_drift_scenario(args.start_lat, args.start_lon,
                                     args.fall_time, args.aircraft_bearing,
                                     args.wind1_ms, args.wind2_ms,
                                     args.scenario_name)
  /\ pc' = "done"
  /\ UNCHANGED <<args, globals>>

CalculateRefinedLandingZone ==
  /\ pc = "call"
  /\ args.fn = "calculate_refined_landing_zone"
  /\ ret' = calculate_refined_landing_zone(args.search_pattern_coordinates)
  /\ pc' = "done"
  /\ UNCHANGED <<args, globals>>

NextDrift ==
  \/ CalculateCanisterDrift
  \/ CalculateDriftScenario
  \/ CalculateRefinedLandingZone

SpecDrift == InitDrift /\ [][NextDrift]_vars

(***************************************************************************)
(* Bearing functions (refined_canister_analysis.py calculate_bearing and   *)
(* canister_trajectory_analysis.py calculate_trajectory_bearing)           *)
(***************************************************************************)

\* largest length of a flight path handed to calculate_trajectory_bearing
MaxCoords == 3

\* Python's None
None == "None"

\* coords_list is a sequence of records with fields lat and lon
calculate_trajectory_bearing(coords_list) ==
  IF Len(coords_list) < 2 THEN None
  ELSE LET n == Len(coords_list)
           start == IF n >= 3 THEN coords_list[n - 2] ELSE coords_list[n - 1]
           end == coords_list[n]
       IN  NormalizeBearing(BearingCenter(start.lat, start.lon, end.lat, end.lon))

\* inputs of the bearing functions
BearingPoints ==
  { <<Deg(40), Deg(-75)>>, <<Deg(41), Deg(-74)>>, <<Deg(39), Deg(-76)>>,
    <<Deg(41), Deg(-76)>>, <<414737, -746607>>, <<Deg(-10), Deg(170)>> }

FlightCoords == { [lat |-> p[1], lon |-> p[2]] : p \in BearingPoints }

InitBearing ==
  /\ pc = "call"
  /\ ret = NoRet /\ globals = NoGlobals
  /\ \/ \E p \in BearingPoints, q \in BearingPoints :
          args = [fn |-> "calculate_bearing",
                  lat1 |-> p[1], lon1 |-> p[2], lat2 |-> q[1], lon2 |-> q[2]]
     \/ \E n \in 0..MaxCoords : \E c \in [1..n -> FlightCoords] :
          args = [fn |-> "calculate_trajectory_bearing", coords_list |-> c]

CalculateBearing ==
  /\ pc = "call"
  /\ args.fn = "calculate_bearing"
  /\ ret' = Return(calculate_bearing(args.lat1, args.lon1, args.lat2, args.lon2))
  /\ pc' = "done"
  /\ UNCHANGED <<args, globals>>

CalculateTrajectoryBearing ==
  /\ pc = "call"
  /\ args.fn = "calculate_trajectory_bearing"
  /\ ret' = Return(calculate_trajectory_bearing(args.coords_list))
  /\ pc' = "done"
  /\ UNCHANGED <<args, globals>>

NextBearing == CalculateBearing \/ CalculateTrajectoryBearing

SpecBearing == InitBearing /\ [][NextBearing]_vars

(***************************************************************************)
(* Overlap of two search areas (calculate_intersection.py and              *)
(* analyze_wedge_intersection.py main).  Coordinates count thirds of       *)
(* 0.0001 degree.  The areas drawn are rectilinear polygons whose          *)
(* vertices lie on the unit grid 0..GridMax, so each is a union of unit    *)
(* cells and Shapely's intersection is computed on cells: the cells common *)
(* to both areas, split into edge-connected parts, and whether the two     *)
(* closed areas also share boundary points away from every common cell.    *)
(* The vertex the library starts the exterior ring at, the direction it    *)
(* runs in, and whether it keeps an input vertex that lies on a straight   *)
(* stretch of the result's boundary are the library's choice.              *)
(***************************************************************************)

\* the grid carrying the areas
GridMax == 6

\* tolerance = 0.0001 degrees
tolerance == 3

\* Polygon([(coord[1], coord[0]) for coord in coords])
ShapelyPolygon(coords) ==
  [i \in 1..Len(coords) |-> <<coords[i][2], coords[i][1]>>]

GridCells == (0..(GridMax - 1)) \X (0..(GridMax - 1))

\* the unit cells [i, i + 1] x [j, j + 1] inside a polygon: those whose
\* center the polygon contains (tested on doubled coordinates)
Cells(polygon) ==
  LET doubled == [i \in 1..Len(polygon) |-> <<2 * polygon[i][1], 2 * polygon[i][2]>>]
  IN  { c \in GridCells : ShapelyContains(doubled, <<2 * c[1] + 1, 2 * c[2] + 1>>) }

\* two cells share a side
Adjacent(c, d) == Abs(c[1] - d[1]) + Abs(c[2] - d[2]) = 1

RECURSIVE Grow(_, _)

\* the cells of S connected to the cells of part through shared sides
Grow(S, part) ==
  LET more == { c \in S \ part : \E d \in part : Adjacent(c, d) }
  IN  IF more = {} THEN part ELSE Grow(S, part \cup more)

RECURSIVE Parts(_)

\* the edge-connected parts of a set of cells
Parts(S) ==
  IF S = {} THEN {}
  ELSE LET part == Grow(S, {CHOOSE c \in S : TRUE})
       IN  {part} \cup Parts(S \ part)

\* the grid points on the closure of a set of cells
CellCorners(S) == { <<c[1] + dx, c[2] + dy>> : c \in S, dx \in {0, 1}, dy \in {0, 1} }

\* the unit segments on the closure of a set of cells
CellSides(S) ==
  UNION { { {<<c[1], c[2]>>, <<c[1] + 1, c[2]>>},
            {<<c[1] + 1, c[2]>>, <<c[1] + 1, c[2] + 1>>},
            {<<c[1], c[2] + 1>>, <<c[1] + 1, c[2] + 1>>},
            {<<c[1], c[2]>>, <<c[1], c[2] + 1>>} } : c \in S }

\* a.intersection(b): the parts of the common cells, and whether the closed
\* areas also meet in points or segments outside the closure of those cells
ShapelyIntersection(a, b) ==
  LET cells_a == Cells(a)
      cells_b == Cells(b)
      common == cells_a \cap cells_b
      corners == CellCorners(cells_a) \cap CellCorners(cells_b)
      sides == CellSides(cells_a) \cap CellSides(cells_b)
  IN  [parts |-> Parts(common),
       loose |-> \/ corners \ CellCorners(common) # {}
                 \/ sides \ CellSides(common) # {}]

\* intersection.is_empty; the variant tests for a missing result object, and
\* the library always hands one back
IsEmptyNever(intersection) == FALSE

IsEmpty(intersection) == intersection.parts = {} /\ ~intersection.loose

\* hasattr(intersection, "exterior"): the result is one Polygon, neither a
\* multi-part geometry nor a collection with points or lines
HasExterior(intersection) ==
  Cardinality(intersection.parts) = 1 /\ ~intersection.loose

\* intersection.bounds = (minx, miny, maxx, maxy)
Bounds(part) ==
  LET corners == CellCorners(part)
      xs == { p[1] : p \in corners }
      ys == { p[2] : p \in corners }
  IN  << CHOOSE x \in xs : \A z \in xs : x <= z,
         CHOOSE y \in ys : \A z \in ys : y <= z,
         CHOOSE x \in xs : \A z \in xs : x >= z,
         CHOOSE y \in ys : \A z \in ys : y >= z >>

\* the sides of a part that lie on its boundary, directed counterclockwise
DirectedSides(part) ==
  UNION { { e \in { [from |-> <<c[1], c[2]>>, to |-> <<c[1] + 1, c[2]>>,
                     beyond |-> <<c[1], c[2] - 1>>],
                    [from |-> <<c[1] + 1, c[2]>>, to |-> <<c[1] + 1, c[2] + 1>>,
                     beyond |-> <<c[1] + 1, c[2]>>],
                    [from |-> <<c[1] + 1, c[2] + 1>>, to |-> <<c[1], c[2] + 1>>,
                     beyond |-> <<c[1], c[2] + 1>>],
                    [from |-> <<c[1], c[2] + 1>>, to |-> <<c[1], c[2]>>,
                     beyond |-> <<c[1] - 1, c[2]>>] } :
              e.beyond \notin part } : c \in part }

RECURSIVE Walk(_, _, _, _)

\* the boundary followed side by side from start back to start
Walk(sides, start, p, acc) ==
  LET q == (CHOOSE e \in sides : e.from = p).to
  IN  IF q = start THEN acc ELSE Walk(sides, start, q, Append(acc, q))

\* the grid points on the boundary of a part, counterclockwise from its
\* lower left corner
UnitRing(part) ==
  LET b == Bounds(part)
      lows == { p \in CellCorners(part) : p[1] = b[1] }
      start == CHOOSE p \in lows : \A q \in lows : p[2] <= q[2]
  IN  Walk(DirectedSides(part), start, start, <<start>>)

\* the k-th smallest element of a set of numbers
Kth(S, k) == CHOOSE x \in S : Cardinality({ y \in S : y <= x }) = k

\* the vertices of the boundary: the points where it turns and, when
\* keep_nodes, the points of nodes on its straight stretches
OpenRing(part, nodes, keep_nodes) ==
  LET ring == UnitRing(part)
      n == Len(ring)
      turns(k) == LET prev == ring[((k + n - 2) % n) + 1]
                      next == ring[(k % n) + 1]
                  IN  <<next[1] - ring[k][1], next[2] - ring[k][2]>>
                        # <<ring[k][1] - prev[1], ring[k][2] - prev[2]>>
      kept == { k \in 1..n : turns(k) \/ (keep_nodes /\ ring[k] \in nodes) }
  IN  [m \in 1..Cardinality(kept) |-> ring[Kth(kept, m)]]

\* a ring started at its k-th vertex, run backwards when reversed, and
\* closed by repeating the first vertex
ClosedRing(ring, k, reversed) ==
  LET n == Len(ring)
      at(m) == IF reversed THEN ring[((k + n - m) % n) + 1]
               ELSE ring[((k + m - 2) % n) + 1]
  IN  [m \in 1..(n + 1) |-> at(IF m = n + 1 THEN 1 ELSE m)]

\* what list(intersection.exterior.coords) may be for a part
ExteriorCoords(part, nodes) ==
  UNION { LET ring == OpenRing(part, nodes, keep_nodes)
          IN  { ClosedRing(ring, k, reversed) :
                  k \in 1..Len(ring), reversed \in BOOLEAN } :
          keep_nodes \in BOOLEAN }

\* the vertices of the two areas
InputNodes(a, b) == { a[i] : i \in 1..Len(a) } \cup { b[i] : i \in 1..Len(b) }

\* [[coord[1], coord[0]] for coord in coords]
LatLon(coords) == [i \in 1..Len(coords) |-> <<coords[i][2], coords[i][1]>>]

\* coords[:k]
Prefix(coords, k) == SubSeq(coords, 1, Min2(k, Len(coords)))

\* abs(a - b) < tolerance; the variant also takes a difference of exactly the
\* tolerance
NearOrAt(a, b) == Abs(a - b) <= tolerance

Near(a, b) == Abs(a - b) < tolerance

\* the vertices within tolerance of the northern or southern limit, or else
\* of the eastern or western one, in boundary order
ExtremePoints(intersection_coords, bounds) ==
  LET max_lat == bounds[4]
      min_lat == bounds[2]
      max_lon == bounds[3]
      min_lon == bounds[1]
      extreme(coord) ==
        \/ Near(coord[1], max_lat) \/ Near(coord[1], min_lat)
        \/ Near(coord[2], max_lon) \/ Near(coord[2], min_lon)
  IN  SelectSeq(Prefix(intersection_coords, Len(intersection_coords) - 1), extreme)

\* the duplicate test of the loop: within the tolerance in latitude and in
\* longitude; the variant is content with either
IsDuplicateEither(point, existing) ==
  Near(point[1], existing[1]) \/ Near(point[2], existing[2])

IsDuplicate(point, existing) ==
  Near(point[1], existing[1]) /\ Near(point[2], existing[2])

RECURSIVE UniqueLoop(_, _, _)

UniqueLoop(extreme_points, i, unique_extremes) ==
  IF i > Len(extreme_points) THEN unique_extremes
  ELSE LET point == extreme_points[i]
           is_duplicate ==
             \E j \in 1..Len(unique_extremes) :
               IsDuplicate(point, unique_extremes[j])
       IN  UniqueLoop(extreme_points, i + 1,
                      IF is_duplicate THEN unique_extremes
                      ELSE Append(unique_extremes, point))

\* the extreme points with every point dropped that is within tolerance,
\* in both coordinates, of one kept before it
UniqueExtremes(extreme_points) == UniqueLoop(extreme_points, 1, <<>>)

\* "if len(unique_extremes) >= 2"; the variant takes what there is
ExtendWithAny(unique_extremes) == Prefix(unique_extremes, 2)

ExtendWith(unique_extremes) ==
  IF Len(unique_extremes) >= 2 THEN Prefix(unique_extremes, 2) ELSE <<>>

\* "if len(corners) < 4"; the variant also takes the branch at 4 corners
FallbackUpTo4(corners) == Len(corners) <= 4

FallbackTaken(corners) == Len(corners) < 4

\* the two retained points of the day 18 area: the first point of its
\* polygon and the last point of its inner arc, here its second vertex
day18_left_4mile(day_18_coords) == day_18_coords[1]

day18_right_4mile(day_18_coords) == day_18_coords[2]

\* analyze_wedge_intersection.py main; exterior is the ring the library
\* returns when the overlap is one polygon
analyze_wedge_intersection(day_15_coords, day_18_coords, exterior) ==
  LET day15_polygon == ShapelyPolygon(day_15_coords)
      day18_polygon == ShapelyPolygon(day_18_coords)
      intersection == ShapelyIntersection(day15_polygon, day18_polygon)
  IN  IF ~IsEmpty(intersection) /\ HasExterior(intersection)
      THEN LET intersection_coords == LatLon(exterior)
               bounds == Bounds(CHOOSE part \in intersection.parts : TRUE)
               extreme_points == ExtremePoints(intersection_coords, bounds)
               unique_extremes == UniqueExtremes(extreme_points)
               corners == << day18_left_4mile(day_18_coords),
                             day18_right_4mile(day_18_coords) >>
                            \o ExtendWith(unique_extremes)
               vertices == Prefix(intersection_coords, Len(intersection_coords) - 1)
           IN  [report |-> "THE 4 CORNER COORDINATES",
                intersection_coords |-> intersection_coords,
                extreme_points |-> extreme_points,
                unique_extremes |-> unique_extremes,
                corners |-> Prefix(corners, 4),
                fallback |-> FallbackTaken(corners),
                vertices |-> IF FallbackTaken(corners) /\ Len(vertices) >= 4
                             THEN Prefix(vertices, 4) ELSE <<>>]
      ELSE [report |-> "No intersection found or intersection is not a simple polygon",
            intersection_coords |-> <<>>,
            extreme_points |-> <<>>,
            unique_extremes |-> <<>>,
            corners |-> <<>>,
            fallback |-> FALSE,
            vertices |-> <<>>]

\* calculate_intersection.py main
calculate_intersection(day_15_coords, day_18_coords, exterior) ==
  LET day_15_polygon == ShapelyPolygon(day_15_coords)
      day_18_polygon == ShapelyPolygon(day_18_coords)
      intersection == ShapelyIntersection(day_15_polygon, day_18_polygon)
  IN  IF ~IsEmpty(intersection)
      THEN IF HasExterior(intersection)
           THEN LET intersection_coords == LatLon(exterior)
                    bounds == Bounds(CHOOSE part \in intersection.parts : TRUE)
                IN  [report |-> "Intersection coordinates",
                     intersection_coords |-> intersection_coords,
                     corners |-> IF Len(intersection_coords) > 4
                                 THEN << <<bounds[2], bounds[1]>>,
                                         <<bounds[2], bounds[3]>>,
                                         <<bounds[4], bounds[1]>>,
                                         <<bounds[4], bounds[3]>> >>
                                 ELSE <<>>]
           ELSE [report |-> "Intersection is not a simple polygon",
                 intersection_coords |-> <<>>,
                 corners |-> <<>>]
      ELSE [report |-> "No intersection found between Day 15 and Day 18 areas!",
            intersection_coords |-> <<>>,
            corners |-> <<>>]

\* the rectangle with the given southern, western, northern and eastern
\* limits as a closed list of [lat, lon] vertices
Rectangle(south, west, north, east) ==
  << <<south, west>>, <<south, east>>, <<north, east>>, <<north, west>>,
     <<south, west>> >>

\* the day 15 areas drawn: two rectangles, a U, two Ls and a staircase
Day15Areas ==
  { Rectangle(1, 1, 4, 4),
    Rectangle(0, 0, 2, 2),
    << <<0, 0>>, <<0, 5>>, <<4, 5>>, <<4, 3>>, <<1, 3>>, <<1, 1>>, <<4, 1>>,
       <<4, 0>>, <<0, 0>> >>,
    << <<0, 0>>, <<0, 4>>, <<2, 4>>, <<2, 2>>, <<5, 2>>, <<5, 0>>, <<0, 0>> >>,
    << <<0, 0>>, <<0, 2>>, <<2, 2>>, <<2, 1>>, <<4, 1>>, <<4, 0>>, <<0, 0>> >>,
    << <<0, 0>>, <<0, 6>>, <<1, 6>>, <<1, 3>>, <<3, 3>>, <<3, 1>>, <<6, 1>>,
       <<6, 0>>, <<0, 0>> >> }

\* the limits of the day 18 rectangles drawn
Day18Limits == { 0, 2, 3, 6 }

Day18Areas ==
  { Rectangle(l[1], l[2], l[3], l[4]) :
      l \in { m \in Day18Limits \X Day18Limits \X Day18Limits \X Day18Limits :
                m[1] < m[3] /\ m[2] < m[4] } }

InitIntersect ==
  /\ pc = "call"
  /\ ret = NoRet /\ globals = NoGlobals
  /\ \E f \in {"calculate_intersection", "analyze_wedge_intersection"},
        a \in Day15Areas, b \in Day18Areas :
       args = [fn |-> f, day_15_coords |-> a, day_18_coords |-> b]

\* the rings the library may hand back for the overlap of the two areas
Exteriors(day_15_coords, day_18_coords) ==
  LET a == ShapelyPolygon(day_15_coords)
      b == ShapelyPolygon(day_18_coords)
      intersection == ShapelyIntersection(a, b)
  IN  IF HasExterior(intersection)
      THEN ExteriorCoords(CHOOSE part \in intersection.parts : TRUE,
                          InputNodes(a, b))
      ELSE { <<>> }

CalculateIntersection ==
  /\ pc = "call"
  /\ args.fn = "calculate_intersection"
  /\ \E exterior \in Exteriors(args.day_15_coords, args.day_18_coords) :
       ret' = Return(calculate_intersection(args.day_15_coords,
                                            args.day_18_coords, exterior))
  /\ pc' = "done"
  /\ UNCHANGED <<args, globals>>

AnalyzeWedgeIntersection ==
  /\ pc = "call"
  /\ args.fn = "analyze_wedge_intersection"
  /\ \E exterior \in Exteriors(args.day_15_coords, args.day_18_coords) :
       ret' = Return(analyze_wedge_intersection(args.day_15_coords,
                                                args.day_18_coords, exterior))
  /\ pc' = "done"
  /\ UNCHANGED <<args, globals>>

NextIntersect == CalculateIntersection \/ AnalyzeWedgeIntersection

SpecIntersect == InitIntersect /\ [][NextIntersect]_vars

(***************************************************************************)
(* Interactive rotation page (interactive_rotation.py)                     *)
(*                                                                         *)
(* The page's script keeps its state in script-level variables; globals    *)
(* holds them together with the layers on the Leaflet map and the text of  *)
(* the angle display.  A layer is a record of its kind and coordinates.    *)
(***************************************************************************)

\* the value of a variable that holds no layer
null == [kind |-> "null", latlngs |-> <<>>]

\* the sector parameters written into the script
PageSector(rotationDegrees) ==
  [center_lat |-> 403646, center_lon |-> -749504,
   bearing_lat |-> 403652, bearing_lon |-> -749472,
   width_degrees |-> Deg(30), min_radius_miles |-> 10, max_radius_miles |-> 25,
   rotation_degrees |-> Deg(rotationDegrees)]

\* createSectorCoordinates repeats the arithmetic of create_sector_polygon
createSectorCoordinates(rotationDegrees) ==
  create_sector_polygon(PageSector(rotationDegrees))

createReferenceLines(rotationDegrees) ==
  LET a == PageSector(rotationDegrees)
      bearingCenter == BearingCenter(a.center_lat, a.center_lon,
                                     a.bearing_lat, a.bearing_lon)
                       + a.rotation_degrees
      halfWidth == Div(a.width_degrees, 2)
      bearingLeft == bearingCenter - halfWidth
      bearingRight == bearingCenter + halfWidth
      minRadiusDeg == MilesToDegrees(a.min_radius_miles)
      maxRadiusDeg == MilesToDegrees(a.max_radius_miles)
      origin == <<a.center_lat, a.center_lon>>
  IN  [center |-> << origin, SectorPoint(a.center_lat, a.center_lon,
                                         maxRadiusDeg, bearingCenter) >>,
       left |-> << origin, SectorPoint(a.center_lat, a.center_lon,
                                       minRadiusDeg, bearingLeft) >>,
       right |-> << origin, SectorPoint(a.center_lat, a.center_lon,
                                        minRadiusDeg, bearingRight) >>]

\* L.polygon / L.polyline: a new layer of the given kind
Layer(kind, latlngs) == [kind |-> kind, latlngs |-> latlngs]

\* layer.addTo(map)
addTo(layers, layer) == Append(layers, layer)

\* map.removeLayer(layer) under "if (layer)": the layer leaves the map
removeLayer(layers, layer) ==
  IF layer = null \/ \A i \in 1..Len(layers) : layers[i] /= layer
    THEN layers
    ELSE LET i == CHOOSE j \in 1..Len(layers) :
                    layers[j] = layer /\ \A k \in 1..(j - 1) : layers[k] /= layer
         IN  SubSeq(layers, 1, i - 1) \o SubSeq(layers, i + 1, Len(layers))

\* the layers left on the map when the old sector and lines are taken off;
\* the variant leaves them on
RemovedNone(g) == g.map

Removed(g) ==
  removeLayer(removeLayer(removeLayer(removeLayer(g.map, g.sectorPolygon),
                                      g.centerLine),
                          g.leftBoundaryLine),
              g.rightBoundaryLine)

updateSector(g) ==
  LET sector == Layer("polygon", createSectorCoordinates(g.currentRotation))
      refLines == createReferenceLines(g.currentRotation)
      center == Layer("centerLine", refLines.center)
      left == Layer("leftBoundaryLine", refLines.left)
      right == Layer("rightBoundaryLine", refLines.right)
  IN  [g EXCEPT !.map = addTo(addTo(addTo(addTo(Removed(g), sector), center),
                                    left), right),
                !.sectorPolygon = sector,
                !.centerLine = center,
                !.leftBoundaryLine = left,
                !.rightBoundaryLine = right,
                !.angle_display = ToString(g.currentRotation) \o "°"]

\* the rotation kept between -360 and 360; the variant keeps the plain sum
KeptBetweenNever(rotation) == rotation

KeptBetween(rotation) ==
  LET lowered == IF rotation > 360 THEN rotation - 360 ELSE rotation
  IN  IF lowered < -360 THEN lowered + 360 ELSE lowered

rotateSector(g, degrees) ==
  updateSector([g EXCEPT !.currentRotation = KeptBetween(g.currentRotation + degrees)])

resetRotation(g) == updateSector([g EXCEPT !.currentRotation = 0])

\* the keydown listener
keydown(g, key) ==
  CASE key = "ArrowLeft" -> rotateSector(g, -5)
    [] key = "ArrowRight" -> rotateSector(g, 5)
    [] key \in {"r", "R"} -> resetRotation(g)
    [] OTHER -> g

\* the script's state before its first updateSector() call
PageScript ==
  [currentRotation |-> 0,
   sectorPolygon |-> null, centerLine |-> null,
   leftBoundaryLine |-> null, rightBoundaryLine |-> null,
   map |-> << Layer("tileLayer", <<>>),
            Layer("marker", << <<403646, -749504>> >>) >>,
   angle_display |-> "0°"]

\* the degrees of the four rotate buttons
RotateButtons == {-15, -5, 5, 15}

Keys == {"ArrowLeft", "ArrowRight", "r", "R", "Escape"}

undefined == "undefined"

InitRotation ==
  /\ pc = "loaded"
  /\ args = [fn |-> "updateSector"]
  /\ ret = Return(undefined)
  /\ globals = updateSector(PageScript)

ClickRotate ==
  \E degrees \in RotateButtons :
    /\ args' = [fn |-> "rotateSector", degrees |-> degrees]
    /\ globals' = rotateSector(globals, degrees)
    /\ pc' = "click"
    /\ UNCHANGED ret

ClickReset ==
  /\ args' = [fn |-> "resetRotation"]
  /\ globals' = resetRotation(globals)
  /\ pc' = "click"
  /\ UNCHANGED ret

KeyDown ==
  \E key \in Keys :
    /\ args' = [fn |-> "keydown", key |-> key]
    /\ globals' = keydown(globals, key)
    /\ pc' = "keydown"
    /\ UNCHANGED ret

NextRotation == ClickRotate \/ ClickReset \/ KeyDown

SpecRotation == InitRotation /\ [][NextRotation]_vars

(***************************************************************************)
(* Map-data fetch functions (large_public_areas_search.py,                 *)
(* comprehensive_veil_search.py, public_areas.py,                          *)
(* historic_hidden_search.py)                                              *)
(*                                                                         *)
(* Each function posts one Overpass query and sorts the elements of the    *)
(* answer into categories.  The answer of the server is an input of the    *)
(* call: requests.post raises, or returns a response with a status code    *)
(* and a body.  An element carries the category its tags classify it as    *)
(* and whether its geometry lies in the buffered wedge.                    *)
(***************************************************************************)

MaxElements == 2

\* an optional list argument: None, or a list of items
PyNone == [none |-> TRUE, items |-> <<>>]

PyList(items) == [none |-> FALSE, items |-> items]

\* a local variable that no assignment has reached yet
UnboundLocal == [bound |-> FALSE, value |-> <<>>]

Bound(value) == [bound |-> TRUE, value |-> value]

\* the exception lines "response = requests.post(...)",
\* "response.raise_for_status()" and "data = response.json()" raise, "None"
\* when all three pass
RequestException(response) ==
  IF response.raised /= "None" THEN response.raised
  ELSE IF response.status >= 400 THEN "HTTPError"
  ELSE IF ~response.decodable THEN "JSONDecodeError"
  ELSE "None"

\* data.get("elements", [])
ElementsOf(response) == response.elements

\* the loop "if category in categories: categories[category].append(element)"
RECURSIVE Categorise(_, _)

Categorise(categories, elements) ==
  IF elements = <<>> THEN categories
  ELSE LET element == Head(elements)
           category == element.category
       IN  Categorise(IF category \in DOMAIN categories
                        THEN [categories EXCEPT ![category] = Append(@, element)]
                        ELSE categories,
                      Tail(elements))

\* {k: [] for k in keys}
EmptyLists(keys) == [k \in keys |-> <<>>]

\* "return {k: [] for k in categories.keys()}" in an except clause
EmptyListsOfKeys(categories) ==
  IF categories.bound THEN Return(EmptyLists(DOMAIN categories.value))
  ELSE Raise("UnboundLocalError")

LargeCategories ==
  { "major_parks", "forests_woods", "nature_preserves", "state_county_parks",
    "recreation_areas", "golf_courses", "trail_systems", "water_recreation",
    "open_spaces" }

get_large_public_areas(bounds, response) ==
  LET raised == RequestException(response)
      categories == IF raised = "None" THEN Bound(EmptyLists(LargeCategories))
                    ELSE UnboundLocal
  IN  IF raised = "None"
        THEN Return(Categorise(categories.value, ElementsOf(response)))
        ELSE EmptyListsOfKeys(categories)

ComprehensiveCategories ==
  { "historic_sites", "cemeteries", "abandoned_ruins", "horse_tracks",
    "major_parks", "forests_woods", "nature_preserves", "state_county_parks",
    "hiking_trails", "biking_trails", "water_features", "natural_caves_rocks",
    "golf_courses", "sports_facilities", "parking_access", "bridges_structures" }

get_comprehensive_data(bounds, response) ==
  LET raised == RequestException(response)
      filtered_elements ==
        SelectSeq(ElementsOf(response), LAMBDA element : element.in_wedge)
      categories == IF raised = "None"
                      THEN Bound(EmptyLists(ComprehensiveCategories))
                    ELSE UnboundLocal
  IN  IF raised = "None"
        THEN Return(Categorise(categories.value, filtered_elements))
        ELSE EmptyListsOfKeys(categories)

AllAreaTypes ==
  << "park", "hiking", "recreation", "beach", "water", "tourism", "education" >>

Range(list) == { list[i] : i \in 1..Len(list) }

get_public_areas(bounds, area_types_given, response) ==
  LET area_types == IF area_types_given.none THEN AllAreaTypes
                    ELSE area_types_given.items
      raised == RequestException(response)
  IN  IF raised = "None"
        THEN Return(Categorise(EmptyLists(Range(area_types)), ElementsOf(response)))
        ELSE Return(EmptyLists(Range(area_types)))

HistoricCategories ==
  { "historic_sites", "abandoned_areas", "ruins", "memorials", "cemeteries",
    "horse_tracks", "military", "mines_quarries", "caves_rocks",
    "old_infrastructure" }

get_historic_and_hidden_areas(bounds, response) ==
  LET raised == RequestException(response)
  IN  IF raised = "None"
        THEN Return(Categorise(EmptyLists(HistoricCategories), ElementsOf(response)))
        ELSE Return(EmptyLists(HistoricCategories))

\* the answers of the server
FetchElements ==
  { [category |-> c, in_wedge |-> w] :
      c \in {"major_parks", "historic_sites", "park", "default"}, w \in BOOLEAN }

ElementLists == UNION { [1..n -> FetchElements] : n \in 0..MaxElements }

StatusCodes == {200, 404, 503}

Responses ==
  { [raised |-> e, status |-> 0, decodable |-> FALSE, elements |-> <<>>] :
      e \in {"ConnectionError", "Timeout"} }
  \cup { [raised |-> "None", status |-> s, decodable |-> FALSE, elements |-> <<>>] :
           s \in StatusCodes }
  \cup { [raised |-> "None", status |-> s, decodable |-> TRUE, elements |-> es] :
           s \in StatusCodes, es \in ElementLists }

FetchBounds == << 402, -751, 406, -747 >>

FetchAreaTypes == { PyNone, PyList(<<"park">>), PyList(<<"park", "water">>) }

InitFetch ==
  /\ pc = "call"
  /\ ret = NoRet /\ globals = NoGlobals
  /\ \/ \E fn \in {"get_large_public_areas", "get_comprehensive_data",
                   "get_historic_and_hidden_areas"}, response \in Responses :
          args = [fn |-> fn, bounds |-> FetchBounds, response |-> response]
     \/ \E area_types \in FetchAreaTypes, response \in Responses :
          args = [fn |-> "get_public_areas", bounds |-> FetchBounds,
                  area_types |-> area_types, response |-> response]

GetLargePublicAreas ==
  /\ pc = "call"
  /\ args.fn = "get_large_public_areas"
  /\ ret' = get_large_public_areas(args.bounds, args.response)
  /\ pc' = "done"
  /\ UNCHANGED <<args, globals>>

GetComprehensiveData ==
  /\ pc = "call"
  /\ args.fn = "get_comprehensive_data"
  /\ ret' = get_comprehensive_data(args.bounds, args.response)
  /\ pc' = "done"
  /\ UNCHANGED <<args, globals>>

GetPublicAreas ==
  /\ pc = "call"
  /\ args.fn = "get_public_areas"
  /\ ret' = get_public_areas(args.bounds, args.area_types, args.response)
  /\ pc' = "done"
  /\ UNCHANGED <<args, globals>>

GetHistoricAndHiddenAreas ==
  /\ pc = "call"
  /\ args.fn = "get_historic_and_hidden_areas"
  /\ ret' = get_historic_and_hidden_areas(args.bounds, args.response)
  /\ pc' = "done"
  /\ UNCHANGED <<args, globals>>

NextFetch ==
  \/ GetLargePublicAreas
  \/ GetComprehensiveData
  \/ GetPublicAreas
  \/ GetHistoricAndHiddenAreas

SpecFetch == InitFetch /\ [][NextFetch]_vars

(***************************************************************************)
(* Latitude search tool (latitude_search_tool.py)                          *)
(*                                                                         *)
(* Latitudes and longitudes are in units of 0.0001 degree, radii in        *)
(* hundredths of a mile, so that a radius of radius_miles is               *)
(* radius_miles * 100 / 69 units of latitude: the comparison with the      *)
(* radius and the sign under the square root are computed on both sides    *)
(* times 69, without rounding.  globals holds the lines printed so far.    *)
(***************************************************************************)

\* a value that may be None
PyValue(value) == [none |-> FALSE, items |-> value]

\* math.sqrt
MathSqrt(x) == IF x < 0 THEN Raise("ValueError") ELSE Return(Sqrt(x))

calculate_latitude_search_band(drop_point, radius_miles, given_latitude) ==
  LET center_lat == drop_point[1]
      center_lon == drop_point[2]
      radius_degrees_69 == radius_miles * 100
      lat_distance == Abs(given_latitude - center_lat)
      half_chord_69 == MathSqrt(radius_degrees_69 * radius_degrees_69
                                  - (lat_distance * 69) * (lat_distance * 69))
      half_chord_degrees == Rnd(half_chord_69.val, 69)
      half_chord_miles == Rnd(half_chord_69.val, 100)
      west_intersection == center_lon - Rnd(half_chord_degrees * 13, 10)
      east_intersection == center_lon + Rnd(half_chord_degrees * 13, 10)
      band_width_miles == 2 * half_chord_miles
      circle_area == Rnd(355 * radius_miles * radius_miles, 113)
      band_area == Rnd(band_width_miles * 100 * 5, 100)
      search_band ==
        [latitude |-> given_latitude,
         west_point |-> <<given_latitude, west_intersection>>,
         east_point |-> <<given_latitude, east_intersection>>,
         band_width_miles |-> band_width_miles,
         center_distance_miles |-> Rnd(lat_distance * 69, 100),
         area_reduction_percent |-> 100 - Rnd(band_area * 100, circle_area)]
  IN  IF lat_distance * 69 > radius_degrees_69
        THEN Return(<<PyNone, "Latitude line doesn't intersect the search circle">>)
      ELSE IF half_chord_69.exc /= "None" THEN half_chord_69
      ELSE Return(<<PyValue(search_band), "Success">>)

\* the result and the lines printed, in the order printed
create_latitude_focused_map(drop_point, search_radius_miles, given_latitude, corners) ==
  LET band == calculate_latitude_search_band(drop_point, search_radius_miles,
                                             given_latitude)
      search_band == band.val[1]
      status == band.val[2]
      lat_map == [location |-> <<given_latitude, drop_point[2]>>, zoom_start |-> 16]
  IN  IF band.exc /= "None" THEN [ret |-> band, printed |-> <<>>]
      ELSE IF search_band.none
        THEN [ret |-> Return(PyNone), printed |-> << "Error: " \o status >>]
      ELSE [ret |-> Return(PyValue(<<lat_map, search_band.items>>)), printed |-> <<>>]

\* "lat_map, search_band = value": None cannot be unpacked
Unpack(value) ==
  IF value.none THEN Raise("TypeError") ELSE Return(value.items)

MainDropPoint == <<405144, -745960>>

MainCorners ==
  << <<404926, -745785>>, <<405005, -745616>>,
     <<405275, -745776>>, <<405161, -746037>> >>

\* the map create_latitude_focused_map returns in a pair is never None, so
\* "if lat_map" holds whenever the pair could be unpacked
main(example_latitude) ==
  LET drop_point == MainDropPoint
      search_radius_miles == 50
      created == create_latitude_focused_map(drop_point, search_radius_miles,
                                             example_latitude, MainCorners)
      unpacked == IF created.ret.exc /= "None" THEN created.ret
                  ELSE Unpack(created.ret.val)
      heading == << "LATITUDE SEARCH TOOL", "Drop Point", "Search Radius",
                    "Example Latitude" >> \o created.printed
  IN  IF unpacked.exc /= "None" THEN [ret |-> unpacked, printed |-> heading]
      ELSE [ret |-> Return(PyValue(unpacked.val[1])),
            printed |-> heading \o << "Map saved as", "LATITUDE-FOCUSED SEARCH STRATEGY" >>]

\* inputs of the latitude search tool
LatitudeDropPoints == { MainDropPoint, <<Deg(40), Deg(-75)>> }

LatitudeRadii == { 50, 100, 200 }

LatitudeOffsets == { 0, 6, 72, 73, -72, -73, 145, 300, -10000 }

InitLatitude ==
  /\ pc = "call"
  /\ ret = NoRet
  /\ globals = [stdout |-> <<>>]
  /\ \/ \E fn \in {"calculate_latitude_search_band", "create_latitude_focused_map"},
           drop_point \in LatitudeDropPoints, radius_miles \in LatitudeRadii,
           offset \in LatitudeOffsets :
          args = [fn |-> fn, drop_point |-> drop_point, radius_miles |-> radius_miles,
                  given_latitude |-> drop_point[1] + offset]
     \/ \E offset \in LatitudeOffsets :
          args = [fn |-> "main", example_latitude |-> MainDropPoint[1] + offset]

CalculateLatitudeSearchBand ==
  /\ pc = "call"
  /\ args.fn = "calculate_latitude_search_band"
  /\ ret' = calculate_latitude_search_band(args.drop_point, args.radius_miles,
                                           args.given_latitude)
  /\ pc' = "done"
  /\ UNCHANGED <<args, globals>>

CreateLatitudeFocusedMap ==
  /\ pc = "call"
  /\ args.fn = "create_latitude_focused_map"
  /\ LET created == create_latitude_focused_map(args.drop_point, args.radius_miles,
                                                args.given_latitude, MainCorners)
     IN  /\ ret' = created.ret
         /\ globals' = [stdout |-> globals.stdout \o created.printed]
  /\ pc' = "done"
  /\ UNCHANGED args

Main ==
  /\ pc = "call"
  /\ args.fn = "main"
  /\ LET run == main(args.example_latitude)
     IN  /\ ret' = run.ret
         /\ globals' = [stdout |-> globals.stdout \o run.printed]
  /\ pc' = "done"
  /\ UNCHANGED args

NextLatitude == CalculateLatitudeSearchBand \/ CreateLatitudeFocusedMap \/ Main

SpecLatitude == InitLatitude /\ [][NextLatitude]_vars

(***************************************************************************)
(* Public areas utilities (public_areas_utils.py)                          *)
(*                                                                         *)
(* globals holds the dictionary PUBLIC_AREAS_CONFIG that the module        *)
(* imports from main and every function shares.                            *)
(***************************************************************************)

\* "if area_types:" holds for a list with at least one item; the variant
\* holds for every list, the empty one included
TruthyList(value) == ~value.none

Truthy(value) == ~value.none /\ value.items /= <<>>

\* create_map_with_all_datasets() builds a new map from the sector datasets
\* and reads none of the configuration
MapWithAllDatasets == "veil.html"

\* the configuration create_map_with_public_areas leaves behind
create_map_with_public_areas(config, area_types, padding_miles) ==
  [config EXCEPT !.enabled = TRUE,
                 !.area_types = IF Truthy(area_types) THEN area_types.items ELSE @,
                 !.padding_miles = padding_miles]

\* the configuration create_map_without_public_areas leaves behind
create_map_without_public_areas(config) == [config EXCEPT !.enabled = FALSE]

create_parks_only_map(config) ==
  create_map_with_public_areas(config, PyList(<<"park">>), 5)

create_hiking_map(config) ==
  create_map_with_public_areas(config, PyList(<<"hiking", "park", "tourism">>), 5)

create_recreation_map(config) ==
  create_map_with_public_areas(config, PyList(<<"recreation", "park", "water">>), 5)

\* the dictionary as main defines it, before any call
InitialConfigs ==
  { [enabled |-> e, area_types |-> AllAreaTypes, padding_miles |-> 5] : e \in BOOLEAN }

\* arguments of create_map_with_public_areas
ConfigAreaTypes ==
  { PyNone, PyList(<<>>), PyList(<<"park">>), PyList(<<"park", "hiking">>),
    PyList(<<"water", "beach">>) }

ConfigPaddings == { 0, 1, 2, 3, 5, 10 }

InitConfig ==
  /\ pc = "imported"
  /\ args = [fn |-> "import"]
  /\ ret = NoRet
  /\ globals \in { [PUBLIC_AREAS_CONFIG |-> config] : config \in InitialConfigs }

CreateMapWithPublicAreas ==
  \E area_types \in ConfigAreaTypes, padding_miles \in ConfigPaddings :
    /\ args' = [fn |-> "create_map_with_public_areas",
                area_types |-> area_types, padding_miles |-> padding_miles]
    /\ globals' = [PUBLIC_AREAS_CONFIG |->
                     create_map_with_public_areas(globals.PUBLIC_AREAS_CONFIG,
                                                  area_types, padding_miles)]
    /\ ret' = Return(MapWithAllDatasets)
    /\ pc' = "done"

CreateMapWithoutPublicAreas ==
  /\ args' = [fn |-> "create_map_without_public_areas"]
  /\ globals' = [PUBLIC_AREAS_CONFIG |->
                   create_map_without_public_areas(globals.PUBLIC_AREAS_CONFIG)]
  /\ ret' = Return(MapWithAllDatasets)
  /\ pc' = "done"

CreateParksOnlyMap ==
  /\ args' = [fn |-> "create_parks_only_map"]
  /\ globals' = [PUBLIC_AREAS_CONFIG |->
                   create_parks_only_map(globals.PUBLIC_AREAS_CONFIG)]
  /\ ret' = Return(MapWithAllDatasets)
  /\ pc' = "done"

CreateHikingMap ==
  /\ args' = [fn |-> "create_hiking_map"]
  /\ globals' = [PUBLIC_AREAS_CONFIG |->
                   create_hiking_map(globals.PUBLIC_AREAS_CONFIG)]
  /\ ret' = Return(MapWithAllDatasets)
  /\ pc' = "done"

CreateRecreationMap ==
  /\ args' = [fn |-> "create_recreation_map"]
  /\ globals' = [PUBLIC_AREAS_CONFIG |->
                   create_recreation_map(globals.PUBLIC_AREAS_CONFIG)]
  /\ ret' = Return(MapWithAllDatasets)
  /\ pc' = "done"

NextConfig ==
  \/ CreateMapWithPublicAreas
  \/ CreateMapWithoutPublicAreas
  \/ CreateParksOnlyMap
  \/ CreateHikingMap
  \/ CreateRecreationMap

SpecConfig == InitConfig /\ [][NextConfig]_vars

(***************************************************************************)
(* Properties of the sector polygon generator                              *)
(***************************************************************************)

SectorCenterPoint == <<args.center_lat, args.center_lon>>

SectorBearingLeft ==
  BearingCenter(args.center_lat, args.center_lon, args.bearing_lat, args.bearing_lon)
    + args.rotation_degrees - Div(args.width_degrees, 2)

SectorBearingRight ==
  BearingCenter(args.center_lat, args.center_lon, args.bearing_lat, args.bearing_lon)
    + args.rotation_degrees + Div(args.width_degrees, 2)

\* the point radius_miles from the center at the given bearing, 69 miles to
\* the degree of latitude
PointAtMiles(radius_miles, bearing) ==
  << args.center_lat + Rnd(Rnd(radius_miles * U, 69) * Cos(bearing), U),
     args.center_lon
       + Div(Rnd(radius_miles * U, 69) * Sin(bearing), Cos(args.center_lat)) >>

WidthInRange == 0 < args.width_degrees /\ args.width_degrees < Deg(360)

\* p, q as seen from the center: positive when q is at a greater bearing
Turn(p, q) ==
  (p[1] - args.center_lat) * (q[2] - args.center_lon)
    - (p[2] - args.center_lon) * (q[1] - args.center_lat)

\* C1: for 0 < widthDegrees < 360 and maxRadiusMiles > minRadiusMiles >= 0
\* (any rotation) the returned polygon is closed: its last point equals its
\* first point, which is the start of the inner arc at bearingLeft.
Thm_C1_Closed ==
  (pc = "done" /\ WidthInRange /\ args.min_radius_miles >= 0
     /\ args.max_radius_miles > args.min_radius_miles)
  => /\ ret.exc = "None"
     /\ ret.val[Len(ret.val)] = ret.val[1]
     /\ ret.val[1] = PointAtMiles(args.min_radius_miles, SectorBearingLeft)

Wit_C1_Closed ==
  /\ pc = "done" /\ WidthInRange
  /\ args.min_radius_miles = 10 /\ args.max_radius_miles = 25
  /\ args.rotation_degrees = Deg(45)
  /\ ret.val[Len(ret.val)] = ret.val[1]
  /\ ret.val[1] # SectorCenterPoint

\* C2: the inner-radius points come in ascending bearing from bearingLeft to
\* bearingRight, then the outer-radius points in descending bearing from
\* bearingRight back to bearingLeft, then the closing point; the last inner
\* and first outer point lie on bearingRight, the last outer and the closing
\* point on bearingLeft; and for widthDegrees < 360 and
\* maxRadiusMiles > minRadiusMiles > 0 the boundary is a simple polygon.
Thm_C2_WasherOrder ==
  (pc = "done" /\ WidthInRange /\ args.min_radius_miles > 0
     /\ args.max_radius_miles > args.min_radius_miles)
  => LET p == ret.val
         n == num_arc_points + 1
     IN  /\ \A i \in 1..(n - 1) : Turn(p[i], p[i + 1]) > 0
         /\ \A i \in (n + 1)..(2 * n - 1) : Turn(p[i], p[i + 1]) < 0
         /\ p[1] = PointAtMiles(args.min_radius_miles, SectorBearingLeft)
         /\ p[n] = PointAtMiles(args.min_radius_miles, SectorBearingRight)
         /\ p[n + 1] = PointAtMiles(args.max_radius_miles, SectorBearingRight)
         /\ p[2 * n] = PointAtMiles(args.max_radius_miles, SectorBearingLeft)
         /\ p[2 * n + 1] = PointAtMiles(args.min_radius_miles, SectorBearingLeft)
         /\ IsSimpleClosed(p)

Wit_C2_WasherOrder ==
  /\ pc = "done" /\ args.width_degrees = Deg(350)
  /\ args.min_radius_miles = 4 /\ args.max_radius_miles = 7
  /\ IsSimpleClosed(ret.val)
  /\ ret.val[num_arc_points + 1] # ret.val[num_arc_points + 2]

\* C3: for arc resolution N the polygon has exactly N inner-arc points, then
\* exactly N outer-arc points, then one closing point: 2N + 1 points.
Cex_C3_PointCount ==
  pc = "done" => Len(ret.val) = 2 * num_arc_points + 1

\* C4: the generator fails with InvalidSectorError, returning no polygon,
\* whenever widthDegrees <= 0, widthDegrees >= 360 or
\* maxRadiusMiles <= minRadiusMiles.
Cex_C4_InvalidSector ==
  (pc = "done" /\ (args.width_degrees <= 0 \/ args.width_degrees >= Deg(360)
                     \/ args.max_radius_miles <= args.min_radius_miles))
  => ret.exc = "InvalidSectorError"

\* C5: when minRadiusMiles = 0 the polygon is still produced, and every
\* inner-arc point and the closing point equal the center point exactly.
Thm_C5_PieSlice ==
  (pc = "done" /\ args.min_radius_miles = 0)
  => /\ ret.exc = "None"
     /\ \A i \in 1..(num_arc_points + 1) : ret.val[i] = SectorCenterPoint
     /\ ret.val[Len(ret.val)] = SectorCenterPoint

Wit_C5_PieSlice ==
  /\ pc = "done" /\ args.min_radius_miles = 0 /\ WidthInRange
  /\ ret.val[1] = SectorCenterPoint
  /\ ret.val[num_arc_points + 2] # SectorCenterPoint

\* C6: miles convert to degrees of latitude as miles / 69.0 (10 miles is
\* 0.1449 degrees), and the first polygon point lies on the inner radius at
\* bearing centerBearing - widthDegrees / 2: latitude offset
\* (min / 69) cos(bearingLeft), longitude offset
\* (min / 69) sin(bearingLeft) / cos(center latitude).
Thm_C6_FirstPoint ==
  /\ MilesToDegrees(10) = 1449
  /\ pc = "done" =>
       /\ ret.val[1][1] - args.center_lat
            = Rnd(Rnd(args.min_radius_miles * U, 69) * Cos(SectorBearingLeft), U)
       /\ ret.val[1][2] - args.center_lon
            = Div(Rnd(args.min_radius_miles * U, 69) * Sin(SectorBearingLeft),
                  Cos(args.center_lat))

Wit_C6_FirstPoint ==
  /\ pc = "done" /\ args.min_radius_miles = 10 /\ args.width_degrees = Deg(30)
  /\ args.rotation_degrees = 0
  /\ ret.val[1][1] # args.center_lat
  /\ ret.val[1][2] # args.center_lon

\* C17: a rotation of 360 degrees is the identity: the polygon generated with
\* rotation_degrees = 360 is, point for point, the polygon generated with
\* rotation_degrees = 0 and otherwise equal inputs (the sines and cosines
\* here are exactly periodic, so the floating tolerance is 0 units).
Thm_C17_FullTurn ==
  (pc = "done" /\ args.rotation_degrees = Deg(360)) =>
    LET unrotated == create_sector_polygon([args EXCEPT !.rotation_degrees = 0])
    IN  /\ ret.exc = "None"
        /\ Len(ret.val) = Len(unrotated)
        /\ \A i \in 1..Len(unrotated) : ret.val[i] = unrotated[i]

\* a sector turned by 360 degrees whose turn by 45 degrees is another polygon
Wit_C17_FullTurn ==
  /\ pc = "done"
  /\ args.rotation_degrees = Deg(360)
  /\ args.width_degrees = Deg(30)
  /\ args.min_radius_miles < args.max_radius_miles
  /\ ret.val = create_sector_polygon([args EXCEPT !.rotation_degrees = 0])
  /\ ret.val # create_sector_polygon([args EXCEPT !.rotation_degrees = Deg(45)])

(***************************************************************************)
(* Properties of the unit conversions                                      *)
(***************************************************************************)

\* metres to degree units through the 69-miles-per-degree converter:
\* 69 statute miles of 1609.344 m are 111045 m to the degree
MetersToDegrees69(m) == Rnd(m * 10^4, 111045)

\* C7: every distance-to-degrees conversion, the drift projector's
\* conversion of metre drift into a latitude delta included, is derived from
\* the one 69-statute-miles-per-degree converter.
Cex_C7_SingleConverter ==
  pc = "done" /\ args.fn = "calculate_canister_drift" =>
    LET w == args.wind_conditions
        north_tail == Mul(ret.val.drift_components.tailwind_m, Cos(w.bearing))
        north_cross == Mul(ret.val.drift_components.crosswind_m,
                           Cos(w.bearing + Deg(90)))
    IN  ret.val.landing_lat - args.start_lat
          = MetersToDegrees69(north_tail) + MetersToDegrees69(north_cross)

(***************************************************************************)
(* Properties of the containment test                                      *)
(***************************************************************************)

\* the edges of the implicitly closed vertex list, as index pairs
EdgesOf(polygon) ==
  { <<i, (i % Len(polygon)) + 1>> : i \in 1..Len(polygon) }

OnBoundary(point, polygon) ==
  \E e \in EdgesOf(polygon) : OnSegment(polygon[e[1]], polygon[e[2]], point)

\* edges crossed by the ray from point toward +infinity along coordinate k
\* (k = 2: longitude, k = 1: latitude); o is the other coordinate
RayCrossings(point, polygon, k) ==
  LET o == 3 - k
      turn(a, b) == IF k = 2 THEN -Orient(a, b, point) ELSE Orient(a, b, point)
  IN  { e \in EdgesOf(polygon) :
          LET a == polygon[e[1]]
              b == polygon[e[2]]
          IN  \/ a[o] < point[o] /\ point[o] < b[o] /\ turn(a, b) > 0
              \/ b[o] < point[o] /\ point[o] < a[o] /\ turn(a, b) < 0 }

\* the ray along coordinate k from point passes through no vertex
RayClearOfVertices(point, polygon, k) ==
  \A i \in 1..Len(polygon) : polygon[i][3 - k] # point[3 - k]

Odd(m) == m % 2 = 1

\* C8: for every polygon (vertex list, implicitly closed) and every point
\* that lies on no edge and whose ray passes through no vertex,
\* point_in_polygon returns true exactly when the ray from the point toward
\* +infinity longitude crosses an odd number of edges (and likewise for the
\* ray toward +infinity in the first coordinate, which the loop itself walks).
Thm_C8_EvenOdd ==
  (pc = "done" /\ ~OnBoundary(args.point, args.polygon))
  => /\ ret.exc = "None"
     /\ \A k \in {1, 2} :
          RayClearOfVertices(args.point, args.polygon, k)
          => (ret.val <=> Odd(Cardinality(RayCrossings(args.point, args.polygon, k))))

Wit_C8_EvenOdd ==
  /\ pc = "done"
  /\ args.polygon = << <<0, 0>>, <<4, 2>>, <<0, 4>>, <<2, 2>> >>
  /\ args.point = <<3, 2>>
  /\ ret.val = TRUE
  /\ Cardinality(RayCrossings(args.point, args.polygon, 2)) = 1

\* the edges the loop of point_in_polygon walks: edge i runs from vertex i to
\* vertex i + 1, the last one back to the first
PipEdge(polygon, i) == << polygon[i], polygon[(i % Len(polygon)) + 1] >>

\* C25: whenever the crossing test of point_in_polygon evaluates xinters for
\* an edge, that edge has p1y /= p2y, so xinters was assigned in the same
\* pass of the loop: no unbound variable and no value left over from an
\* earlier edge is ever read.
Thm_C25_XintersAssigned ==
  /\ \A i \in 1..Len(args.polygon) :
       Reads(args.point, PipEdge(args.polygon, i)[1], PipEdge(args.polygon, i)[2])
       => PipEdge(args.polygon, i)[1][2] /= PipEdge(args.polygon, i)[2][2]
  /\ pc = "done" => ret.exc /= "UnboundLocalError"

\* a polygon with a level edge at the height of the point and a slanted edge
\* whose crossing test reads xinters
Wit_C25_XintersAssigned ==
  /\ pc = "done"
  /\ args.polygon = << <<0, 2>>, <<4, 2>>, <<2, 0>> >>
  /\ args.point = <<1, 2>>
  /\ ret.exc = "None"
  /\ \E i \in 1..Len(args.polygon) :
       Reads(args.point, PipEdge(args.polygon, i)[1], PipEdge(args.polygon, i)[2])

(***************************************************************************)
(* Properties of the buffered wedge filter                                 *)
(***************************************************************************)

\* plain containment of [lat, lon] in the wedge with the given corners
PlainContains(corners, lat, lon) ==
  ShapelyContains([i \in 1..Len(corners) |-> <<corners[i][2], corners[i][1]>>],
                  <<lon, lat>>)

\* the [lat, lon] points of a map element
PointsOfElement(element) ==
  IF element.type = "node" THEN { <<element.lat, element.lon>> }
  ELSE IF "geometry" \in DOMAIN element
  THEN { <<element.geometry[i].lat, element.geometry[i].lon>> :
           i \in 1..Len(element.geometry) }
  ELSE {}

\* C9: with a buffer of 0, buffered containment gives the same answer as
\* plain containment, for every point and every polygon.
Thm_C9_ZeroBuffer ==
  (pc = "done" /\ args.fn = "is_inside_wedge_with_buffer" /\ args.buffer_km = 0)
  => (ret.val <=> PlainContains(args.corners, args.lat, args.lon))

Wit_C9_ZeroBuffer ==
  /\ pc = "done" /\ args.fn = "is_inside_wedge_with_buffer" /\ args.buffer_km = 0
  /\ args.corners = << <<0, 0>>, <<40, 0>>, <<40, 40>>, <<0, 40>> >>
  /\ args.lat = 50 /\ args.lon = 20
  /\ ret.val = FALSE

\* C10: buffered containment never rejects a contained point (for every
\* point, polygon and buffer >= 0, plain containment implies buffered
\* containment), and a node or way is kept by the wedge filter iff at least
\* one of its points passes buffered containment.
Thm_C10_BufferKeeps ==
  /\ (pc = "done" /\ args.fn = "is_inside_wedge_with_buffer" /\ args.buffer_km >= 0
        /\ PlainContains(args.corners, args.lat, args.lon))
     => ret.val = TRUE
  /\ (pc = "done" /\ args.fn = "is_element_in_wedge"
        /\ args.element.type \in {"node", "way"})
     => (ret.val <=>
           \E pt \in PointsOfElement(args.element) :
             is_inside_wedge_with_buffer(pt[1], pt[2], args.wedge_polygon,
                                         DefaultBufferKm))

Wit_C10_BufferKeeps ==
  /\ pc = "done" /\ args.fn = "is_element_in_wedge"
  /\ args.element.type = "way" /\ "geometry" \in DOMAIN args.element
  /\ Len(args.element.geometry) = 2
  /\ ~PlainContains(args.corners, args.element.geometry[1].lat,
                    args.element.geometry[1].lon)
  /\ ~is_inside_wedge_with_buffer(args.element.geometry[1].lat,
                                  args.element.geometry[1].lon,
                                  args.wedge_polygon, DefaultBufferKm)
  /\ ret.val = TRUE

(***************************************************************************)
(* Properties of the drift projectors                                      *)
(***************************************************************************)

\* C11: the fall time is the release altitude in feet times 0.3048, divided
\* by the terminal velocity (to the nearest 0.01 s); for 65000 ft and 50 m/s
\* it is 396.24 s.
Thm_C11_FallTime ==
  pc = "done" =>
    /\ args.fn = "calculate_canister_drift" =>
         /\ 2 * Abs(ret.val.fall_time_seconds * terminal_velocity * 100
                      - args.altitude_ft * 3048) <= 100 * terminal_velocity
         /\ (args.altitude_ft = 65000 /\ terminal_velocity = 50
               => ret.val.fall_time_seconds = 39624)
    /\ args.fn = "calculate_refined_landing_zone" =>
         2 * Abs(RefinedFallTime(args.search_pattern_coordinates.altitude)
                   * estimated_terminal_velocity * 100
                   - args.search_pattern_coordinates.altitude * 3048)
           <= 100 * estimated_terminal_velocity

Wit_C11_FallTime ==
  /\ pc = "done"
  /\ args.fn = "calculate_canister_drift"
  /\ args.altitude_ft = 65000
  /\ ret.val.fall_time_seconds = 39624

\* C12: with zero along-track and zero cross-track wind the landing point is
\* the release point, for every release point, altitude and bearing.
Thm_C12_ZeroWind ==
  pc = "done" =>
    /\ ( /\ args.fn = "calculate_canister_drift"
         /\ args.wind_conditions.tailwind = 0
         /\ args.wind_conditions.crosswind = 0 )
         => /\ ret.val.landing_lat = args.start_lat
            /\ ret.val.landing_lon = args.start_lon
    /\ ( /\ args.fn = "calculate_drift_scenario"
         /\ args.wind1_ms = 0
         /\ args.wind2_ms = 0 )
         => /\ ret.exc = "None"
            /\ ret.val.landing_lat = args.start_lat
            /\ ret.val.landing_lon = args.start_lon
    /\ ( /\ args.fn = "calculate_refined_landing_zone"
         /\ args.search_pattern_coordinates.tailwind = 0
         /\ args.search_pattern_coordinates.crosswind = 0 )
         => /\ ret.exc = "None"
            /\ \A i \in 1..3 :
                 /\ ret.val[i].landing_lat = args.search_pattern_coordinates.lat
                 /\ ret.val[i].landing_lon = args.search_pattern_coordinates.lon

Wit_C12_ZeroWind ==
  /\ pc = "done"
  /\ args.fn = "calculate_canister_drift"
  /\ args.wind_conditions.tailwind = 0
  /\ args.wind_conditions.crosswind = 0
  /\ args.altitude_ft = 65000
  /\ args.wind_conditions.bearing = Deg(37)
  /\ ret.val.landing_lat = args.start_lat
  /\ ret.val.landing_lon = args.start_lon

\* the side of the track through the release point on which a landing point
\* lies: 1 to the right of the bearing, -1 to the left, 0 on the track
SideOfTrack(start_lat, start_lon, bearing, landing_lat, landing_lon) ==
  LET north == landing_lat - start_lat
      east == Mul(landing_lon - start_lon, Cos(start_lat))
  IN  Sign(east * Cos(bearing) - north * Sin(bearing))

OtherSide(side) == IF side = "LEFT" THEN "RIGHT" ELSE "LEFT"

\* C13: the cross-track drift is applied along the reference bearing + 90 or
\* - 90 degrees according to the cross-track side, so two scenarios that
\* differ only in that side land on opposite sides of the track.
Cex_C13_OppositeSides ==
  ( /\ pc = "done"
    /\ args.fn = "calculate_canister_drift"
    /\ args.wind_conditions.crosswind # 0
    /\ args.altitude_ft > 0 )
  => LET w == args.wind_conditions
         flipped == [w EXCEPT !.cross_track_side = OtherSide(@)]
         other == calculate_canister_drift(args.start_lat, args.start_lon,
                                           args.altitude_ft, flipped)
         here == SideOfTrack(args.start_lat, args.start_lon, w.bearing,
                             ret.val.landing_lat, ret.val.landing_lon)
         there == SideOfTrack(args.start_lat, args.start_lon, w.bearing,
                              other.landing_lat, other.landing_lon)
     IN  here # 0 /\ there = -here

\* C14: the projector fails with InvalidScenarioError when the terminal
\* velocity is <= 0 or the release altitude is < 0.
Cex_C14_InvalidScenario ==
  ( /\ pc = "done"
    /\ args.fn = "calculate_canister_drift"
    /\ (terminal_velocity <= 0 \/ args.altitude_ft < 0) )
  => ret.exc = "InvalidScenarioError"

\* C27: the drift distance calculate_canister_drift reports is the Euclidean
\* norm sqrt(along^2 + cross^2) of its along-track and cross-track drift
\* distances, to the metre, which is the distance calculate_drift_scenario
\* reports for the same two drifts.
Cex_C27_EuclideanNorm ==
  (pc = "done" /\ args.fn = "calculate_canister_drift")
  => LET along == ret.val.drift_components.tailwind_m
         cross == ret.val.drift_components.crosswind_m
     IN  Abs(ret.val.drift_distance_m - Sqrt(along * along + cross * cross)) <= 1

(***************************************************************************)
(* Properties of the bearing functions                                     *)
(***************************************************************************)

\* the call returns a bearing rather than None
ReturnsBearing ==
  args.fn = "calculate_bearing" \/ Len(args.coords_list) >= 2

InBearingRange(bearing) == 0 <= bearing /\ bearing < Deg(360)

\* C15: every bearing returned by the bearing functions, and the cross-track
\* bearing derived from it, lies in [0, 360) degrees.
Thm_C15_BearingRange ==
  (pc = "done" /\ ReturnsBearing) =>
    /\ ret.exc = "None"
    /\ InBearingRange(ret.val)
    /\ InBearingRange(CrosswindBearing(ret.val))

\* a westward bearing, which atan2 reports as a negative angle, and whose
\* cross-track bearing wraps past 360
Wit_C15_BearingRange ==
  /\ pc = "done"
  /\ args.fn = "calculate_bearing"
  /\ BearingCenter(args.lat1, args.lon1, args.lat2, args.lon2) < 0
  /\ ret.val > Deg(270)
  /\ CrosswindBearing(ret.val) < Deg(90)

\* C16: a bearing from a point to itself fails with DegenerateInputError.
Cex_C16_DegenerateBearing ==
  ( /\ pc = "done"
    /\ args.fn = "calculate_bearing"
    /\ args.lat1 = args.lat2
    /\ args.lon1 = args.lon2 )
  => ret.exc = "DegenerateInputError"

(***************************************************************************)
(* Properties of the overlap of two search areas                           *)
(***************************************************************************)

\* the two areas, as the polygons handed to the library
Day15Polygon == ShapelyPolygon(args.day_15_coords)

Day18Polygon == ShapelyPolygon(args.day_18_coords)

Overlap == ShapelyIntersection(Day15Polygon, Day18Polygon)

\* two closed vertex lists bound areas without a common point: no edge of
\* one meets an edge of the other and neither area contains the other
Apart(a, b) ==
  /\ \A i \in 1..(Len(a) - 1), j \in 1..(Len(b) - 1) :
       ~SegmentsMeet(a[i], a[i + 1], b[j], b[j + 1])
  /\ ~ShapelyContains(a, b[1])
  /\ ~ShapelyContains(b, a[1])

NoIntersectionReports ==
  { "No intersection found between Day 15 and Day 18 areas!",
    "No intersection found or intersection is not a simple polygon" }

\* C18: when the two polygons do not overlap the intersection is empty and
\* is handled on a normal branch: no overlap polygon, no corners, a
\* "no intersection" report, and no exception.
Thm_C18_NoOverlap ==
  (pc = "done" /\ Apart(Day15Polygon, Day18Polygon)) =>
    /\ Overlap.parts = {}
    /\ ~Overlap.loose
    /\ ret.exc = "None"
    /\ ret.val.intersection_coords = <<>>
    /\ ret.val.corners = <<>>
    /\ ret.val.report \in NoIntersectionReports

Wit_C18_NoOverlap ==
  /\ pc = "done"
  /\ args.fn = "calculate_intersection"
  /\ args.day_15_coords = Rectangle(0, 0, 2, 2)
  /\ args.day_18_coords = Rectangle(3, 3, 6, 6)
  /\ Apart(Day15Polygon, Day18Polygon)
  /\ ret.val.report = "No intersection found between Day 15 and Day 18 areas!"

\* the part of the largest area, a part's area being its number of cells
Largest(parts) ==
  CHOOSE part \in parts : \A other \in parts : Cardinality(part) >= Cardinality(other)

\* C19: when the intersection is multi-part or not a single simple polygon,
\* the result is marked as not a simple polygon and its overlap polygon is
\* the component of the largest area, on which corner extraction then runs.
Cex_C19_LargestPart ==
  ( /\ pc = "done"
    /\ ~IsEmpty(Overlap)
    /\ ~HasExterior(Overlap)
    /\ Overlap.parts # {} )
  => ret.val.intersection_coords
       \in { LatLon(exterior) :
               exterior \in ExteriorCoords(Largest(Overlap.parts),
                                           InputNodes(Day15Polygon, Day18Polygon)) }

\* the corners start with the two retained points of the day 18 area
Retained ==
  << day18_left_4mile(args.day_18_coords), day18_right_4mile(args.day_18_coords) >>

\* corner extraction ran: the overlap is one polygon
Extracted ==
  /\ pc = "done"
  /\ args.fn = "analyze_wedge_intersection"
  /\ HasExterior(Overlap)

BoundaryVertices == Prefix(ret.val.intersection_coords, Len(ret.val.intersection_coords) - 1)

\* the largest and smallest k-th coordinate of the boundary vertices
MaxCoord(k) ==
  CHOOSE x \in { BoundaryVertices[i][k] : i \in 1..Len(BoundaryVertices) } :
    \A i \in 1..Len(BoundaryVertices) : x >= BoundaryVertices[i][k]

MinCoord(k) ==
  CHOOSE x \in { BoundaryVertices[i][k] : i \in 1..Len(BoundaryVertices) } :
    \A i \in 1..Len(BoundaryVertices) : x <= BoundaryVertices[i][k]

\* a vertex within the tolerance of a limit of the overlap
AtLimit(vertex) ==
  \/ Abs(vertex[1] - MaxCoord(1)) < tolerance
  \/ Abs(vertex[1] - MinCoord(1)) < tolerance
  \/ Abs(vertex[2] - MaxCoord(2)) < tolerance
  \/ Abs(vertex[2] - MinCoord(2)) < tolerance

\* the place of a point on the boundary
PlaceOf(point) == CHOOSE i \in 1..Len(BoundaryVertices) : BoundaryVertices[i] = point

\* C21: a boundary vertex (closing duplicate excluded) is an extreme point
\* iff its latitude is within the tolerance of the overlap's maximum or
\* minimum latitude or its longitude within the tolerance of the maximum or
\* minimum longitude; every deduplicated extreme point is such a vertex, they
\* stand in boundary order, and no two of them are within the tolerance of
\* each other in both latitude and longitude.
Thm_C21_Extremes ==
  Extracted =>
    LET at_limit == { i \in 1..Len(BoundaryVertices) : AtLimit(BoundaryVertices[i]) }
        extreme == ret.val.extreme_points
        unique == ret.val.unique_extremes
    IN  /\ Len(extreme) = Cardinality(at_limit)
        /\ \A m \in 1..Len(extreme) : extreme[m] = BoundaryVertices[Kth(at_limit, m)]
        /\ \A m \in 1..Len(unique) :
             /\ \E i \in at_limit : BoundaryVertices[i] = unique[m]
             /\ m > 1 => PlaceOf(unique[m - 1]) < PlaceOf(unique[m])
        /\ \A m \in 1..Len(unique), k \in 1..Len(unique) :
             m # k => \/ Abs(unique[m][1] - unique[k][1]) >= tolerance
                      \/ Abs(unique[m][2] - unique[k][2]) >= tolerance

\* an overlap with a vertex that is no extreme point and an extreme point
\* dropped as a duplicate
Wit_C21_Extremes ==
  /\ Extracted
  /\ Len(ret.val.extreme_points) < Len(BoundaryVertices)
  /\ Len(ret.val.unique_extremes) < Len(ret.val.extreme_points)
  /\ Len(ret.val.unique_extremes) >= 2

Span(k) == MaxCoord(k) - MinCoord(k)

\* C26 as stated: whenever the bounding box of the overlap boundary spans
\* more than the tolerance in latitude or in longitude, corner extraction
\* finds at least two deduplicated extreme points, two cut corners are added
\* to the retained points and the raw-vertex fallback is not taken.
Cex_C26_TwoExtremes ==
  (Extracted /\ (Span(1) > tolerance \/ Span(2) > tolerance)) =>
    /\ Len(ret.val.unique_extremes) >= 2
    /\ Len(ret.val.corners) = 4
    /\ ~ret.val.fallback

\* C26 amended: whenever the bounding box of the overlap boundary spans at
\* least twice the tolerance in latitude or in longitude, corner extraction
\* finds at least two deduplicated extreme points, two cut corners are added
\* to the retained points and the raw-vertex fallback is not taken.
Thm_C26_TwoExtremes ==
  (Extracted /\ (Span(1) >= 2 * tolerance \/ Span(2) >= 2 * tolerance)) =>
    /\ Len(ret.val.unique_extremes) >= 2
    /\ Len(ret.val.corners) = 4
    /\ SubSeq(ret.val.corners, 3, 4) = SubSeq(ret.val.unique_extremes, 1, 2)
    /\ ~ret.val.fallback

\* an overlap twice the tolerance long and less than the tolerance wide
Wit_C26_TwoExtremes ==
  /\ Extracted
  /\ Span(1) >= 2 * tolerance
  /\ Span(2) < tolerance
  /\ Len(ret.val.unique_extremes) >= 2
  /\ ~ret.val.fallback

(***************************************************************************)
(* Properties of the interactive rotation page                             *)
(***************************************************************************)

\* the degrees a control event passes to rotateSector, 0 when it does not
\* call it
AppliedStep(event) ==
  CASE event.fn = "rotateSector" -> event.degrees
    [] event.fn = "keydown" /\ event.key = "ArrowLeft" -> -5
    [] event.fn = "keydown" /\ event.key = "ArrowRight" -> 5
    [] OTHER -> 0

\* TRUE when the event calls resetRotation
IsReset(event) ==
  \/ event.fn = "resetRotation"
  \/ event.fn = "keydown" /\ event.key \in {"r", "R"}

\* C23: from a rotation of 0, every button or key event leaves currentRotation
\* within [-360, 360]; a rotateSector(d) leaves it congruent modulo 360 to the
\* rotation before plus d, so that it stays congruent to the sum of the
\* steps applied since the last reset; and a resetRotation leaves it at 0.
Thm_C23_Rotation ==
  [][ /\ globals'.currentRotation \in -360..360
      /\ AppliedStep(args') /= 0 =>
           (globals'.currentRotation
              - (globals.currentRotation + AppliedStep(args'))) % 360 = 0
      /\ IsReset(args') => globals'.currentRotation = 0 ]_vars

\* a step of 15 degrees has taken the rotation past a full turn and back to 10
Wit_C23_Rotation ==
  /\ args.fn = "rotateSector"
  /\ args.degrees = 15
  /\ globals.currentRotation = 10

\* the layers of one kind on the map
LayersOf(kind) == SelectSeq(globals.map, LAMBDA layer : layer.kind = kind)

\* C24: after every rotateSector or resetRotation call the map holds exactly
\* one sector polygon and exactly one center, left and right reference line,
\* each computed from the current currentRotation, and the angle display
\* shows that rotation.
Thm_C24_OneSector ==
  /\ LayersOf("polygon")
       = << Layer("polygon", createSectorCoordinates(globals.currentRotation)) >>
  /\ LayersOf("centerLine")
       = << Layer("centerLine", createReferenceLines(globals.currentRotation).center) >>
  /\ LayersOf("leftBoundaryLine")
       = << Layer("leftBoundaryLine", createReferenceLines(globals.currentRotation).left) >>
  /\ LayersOf("rightBoundaryLine")
       = << Layer("rightBoundaryLine", createReferenceLines(globals.currentRotation).right) >>
  /\ globals.angle_display = ToString(globals.currentRotation) \o "°"

\* the sector has been rotated and redrawn away from its first position
Wit_C24_OneSector ==
  /\ args.fn = "rotateSector"
  /\ globals.currentRotation = -45
  /\ globals.angle_display = "-45°"

(***************************************************************************)
(* Properties of the map-data fetch functions                              *)
(***************************************************************************)

\* the categories of the dictionary a fetch function returns
CategoriesOf(call) ==
  CASE call.fn = "get_large_public_areas" -> LargeCategories
    [] call.fn = "get_comprehensive_data" -> ComprehensiveCategories
    [] call.fn = "get_historic_and_hidden_areas" -> HistoricCategories
    [] call.fn = "get_public_areas" ->
         IF call.area_types.none THEN Range(AllAreaTypes)
         ELSE Range(call.area_types.items)

\* C28: when the request fails (connection error, HTTP error status or
\* undecodable body), every fetch function returns, without an exception, a
\* dictionary that maps each of its categories to an empty list.
Cex_C28_FetchFailure ==
  (pc = "done" /\ RequestException(args.response) /= "None")
  => /\ ret.exc = "None"
     /\ ret.val = EmptyLists(CategoriesOf(args))

(***************************************************************************)
(* Properties of the latitude search tool                                  *)
(***************************************************************************)

\* TRUE when the latitude of the call lies farther from the drop point than
\* the search radius: |given_latitude - center_lat| > radius_miles / 69
OutsideCircle ==
  IF args.fn = "main"
    THEN Abs(args.example_latitude - MainDropPoint[1]) * 69 > 50 * 100
    ELSE Abs(args.given_latitude - args.drop_point[1]) * 69 > args.radius_miles * 100

\* C29: for a latitude farther from the drop point than the search radius,
\* calculate_latitude_search_band returns (None, message) and takes no
\* square root of a negative number, create_latitude_focused_map prints the
\* error and returns None, and main ends by printing that the map could
\* not be created and returns None; no call raises an exception.
Cex_C29_OutsideCircle ==
  (pc = "done" /\ OutsideCircle)
  => /\ ret.exc = "None"
     /\ args.fn = "calculate_latitude_search_band"
          => ret.val = <<PyNone, "Latitude line doesn't intersect the search circle">>
     /\ args.fn = "create_latitude_focused_map"
          => /\ ret.val = PyNone
             /\ globals.stdout
                  = << "Error: Latitude line doesn't intersect the search circle" >>
     /\ args.fn = "main"
          => /\ ret.val = PyNone
             /\ globals.stdout[Len(globals.stdout)]
                  = "Could not create latitude search map"

(***************************************************************************)
(* Properties of the public areas utilities                                *)
(***************************************************************************)

\* the arguments with which a call reaches create_map_with_public_areas
WithPublicAreas(call) ==
  CASE call.fn = "create_parks_only_map" ->
         [area_types |-> PyList(<<"park">>), padding_miles |-> 5]
    [] call.fn = "create_hiking_map" ->
         [area_types |-> PyList(<<"hiking", "park", "tourism">>), padding_miles |-> 5]
    [] call.fn = "create_recreation_map" ->
         [area_types |-> PyList(<<"recreation", "park", "water">>), padding_miles |-> 5]
    [] OTHER -> call

\* C30: in any sequence of calls, PUBLIC_AREAS_CONFIG has enabled = True
\* after create_map_with_public_areas and enabled = False after
\* create_map_without_public_areas; every create_map_with_public_areas call
\* overwrites padding_miles; and area_types changes only in a call that
\* passes a non-empty list, so a call with None or an empty list leaves the
\* list of an earlier call in force.
Thm_C30_SharedConfig ==
  [][ LET before == globals.PUBLIC_AREAS_CONFIG
          after == globals'.PUBLIC_AREAS_CONFIG
          given == WithPublicAreas(args')
      IN  IF args'.fn = "create_map_without_public_areas"
            THEN /\ after.enabled = FALSE
                 /\ after.area_types = before.area_types
                 /\ after.padding_miles = before.padding_miles
            ELSE /\ after.enabled = TRUE
                 /\ after.padding_miles = given.padding_miles
                 /\ after.area_types
                      = IF given.area_types.none \/ given.area_types.items = <<>>
                          THEN before.area_types
                          ELSE given.area_types.items ]_vars

\* a call without area types after an earlier call chose parks only
Wit_C30_SharedConfig ==
  /\ args.fn = "create_map_with_public_areas"
  /\ args.area_types = PyNone
  /\ args.padding_miles = 2
  /\ globals.PUBLIC_AREAS_CONFIG
       = [enabled |-> TRUE, area_types |-> <<"park">>, padding_miles |-> 2]

=============================================================================
